---- MODULE Spec2Model ----
(***************************************************************************)
(* A model of the rCore kernel execution engine: the scheduler with its    *)
(* ready queue, the blocking synchronisation primitives, thread and        *)
(* process lifecycle, the syscall trap path and the signal subsystem.      *)
(*                                                                         *)
(* The kernel runs on one hart, so at most one task is "current"; every    *)
(* kernel operation below is executed by the current task.  Each           *)
(* subsystem has its own specification over the shared state.              *)
(***************************************************************************)
EXTENDS Integers, Sequences, FiniteSets, TLC

\* ------------------------------------------------------------------ bounds
\* number of TaskControlBlock objects (threads) the model can hold
NThreads == 3
\* number of ProcessControlBlock objects the model can hold
NProcs == 3
\* largest resource count a semaphore is allowed to reach
MaxSemCount == 1
\* the clock stops at this many milliseconds
MaxTime == 2
\* longest sleep a thread asks for, in milliseconds
MaxSleep == 1
\* width of usize in the model (64 in the kernel)
UsizeBits == 6
\* number of physical frames the frame allocator manages
NFrames == 3
\* most FrameTrackers QUEUE_FRAMES is let grow to
MaxQueueFrames == 3
\* number of physical frames the allocator manages when address spaces are built
NSpaceFrames == 14
\* most slots an fd_table is let grow to
MaxFds == 5
\* number of physical frames of a machine that runs out of them
NFewFrames == 8

\* ------------------------------------------------------- Option<T> values
None == <<>>
Some(x) == <<x>>
IsSome(o) == o # <<>>
Unwrap(o) == o[1]

\* -------------------------------------------------------- sequence helpers
Range(s) == {s[i] : i \in 1 .. Len(s)}
Contains(s, x) == \E i \in 1 .. Len(s) : s[i] = x
Occurrences(s, x) == Cardinality({i \in 1 .. Len(s) : s[i] = x})
\* VecDeque::push_back / pop_front
push_back(q, x) == Append(q, x)
pop_front(q) == IF q = <<>> THEN [item |-> None, rest |-> q]
                ELSE [item |-> Some(Head(q)), rest |-> Tail(q)]
\* pop at the wrong end
pop_back(q) == IF q = <<>> THEN [item |-> None, rest |-> q]
               ELSE [item |-> Some(q[Len(q)]), rest |-> SubSeq(q, 1, Len(q) - 1)]

\* TaskControlBlock identities
Tasks == 1 .. NThreads
\* ProcessControlBlock identities
Procs == 1 .. NProcs

VARIABLES
    \* ---- scheduler (task/manager.rs, task/processor.rs)
    ready_queue,        \* TASK_MANAGER.ready_queue: FIFO of tasks
    current,            \* PROCESSOR.current: Option<task>
    task_status,        \* task -> "Ready" | "Running" | "Blocked"
    kpc,                \* task -> where its kernel stack resumes
    \* ---- user programs of the threads
    holds,              \* task -> lock() has returned and unlock() not yet called
    \* ---- sync objects of the process (one of each kind)
    mutex_locked,       \* MutexBlockingInner.locked
    mutex_wait_queue,   \* MutexBlockingInner.wait_queue
    sem_count,          \* SemaphoreInner.count
    sem_wait_queue,     \* SemaphoreInner.wait_queue
    condvar_wait_queue, \* CondvarInner.wait_queue
    blocked_order,      \* history: object -> tasks in the order they blocked on it
    sem_free,           \* history: res_count + up() calls completed - down() calls returned
    \* ---- threads and timers
    task_proc,          \* task -> Option<process> (None: not created yet)
    task_res,           \* TaskControlBlockInner.res: Option<tid>
    task_exit_code,     \* TaskControlBlockInner.exit_code: Option<i32>
    timers,             \* TIMERS: set of [expire_ms, task]
    now_ms,             \* get_time_ms()
    kernel_panic,       \* the kernel has panicked
    shutdown,           \* the machine was shut down
    \* ---- processes
    proc_state,         \* process -> "unborn" | "live" | "dropped"
    proc_pid,           \* ProcessControlBlock.pid
    parent,             \* ProcessControlBlockInner.parent: Option<process>
    children,           \* ProcessControlBlockInner.children
    is_zombie,          \* ProcessControlBlockInner.is_zombie
    exit_code,          \* ProcessControlBlockInner.exit_code
    tasks,              \* ProcessControlBlockInner.tasks: Vec<Option<task>>
    task_res_allocator, \* ProcessControlBlockInner.task_res_allocator
    pid_allocator,      \* PID_ALLOCATOR
    pid2process,        \* PID2PCB: set of <<pid, process>>
    trap_cx,            \* task -> the TrapContext in its trap-context page
    wstatus,            \* process -> the i32 its exit_code_ptr points to
    \* ---- signals
    signal_mask,        \* ProcessControlBlockInner.signal_mask
    signal_recv,        \* ProcessControlBlockInner.signal_recv
    signal_actions,     \* ProcessControlBlockInner.signal_actions
    killed,             \* ProcessControlBlockInner.killed
    frozen,             \* ProcessControlBlockInner.frozen
    handling_sig,       \* ProcessControlBlockInner.handling_sig
    trap_ctx_backup,    \* ProcessControlBlockInner.trap_ctx_backup
    \* ---- memory
    FRAME_ALLOCATOR,    \* StackFrameAllocator: [current, recycled]
    frame_trackers,     \* ppn -> number of live FrameTrackers outside QUEUE_FRAMES
    QUEUE_FRAMES,       \* drivers/bus/virtio.rs QUEUE_FRAMES: Vec<FrameTracker>
    dma_regions,        \* the <<base ppn, pages>> the virtio driver got from dma_alloc
    memory_sets,        \* MemorySet objects: [stage, root_ppn, frames, areas]
    frame_ptes,         \* ppn -> the page-table entries the frame holds
    frame_data,         \* ppn -> the data the frame holds
    \* ---- tables of a process
    mutex_list,         \* ProcessControlBlockInner.mutex_list
    semaphore_list,     \* ProcessControlBlockInner.semaphore_list
    condvar_list,       \* ProcessControlBlockInner.condvar_list
    fd_table,           \* ProcessControlBlockInner.fd_table
    user_image,         \* process -> the program exec loaded and what exec wrote on its user stack
    input_dev,          \* VirtIOInputWrapper: events, the wait queue of its condvar
    \* ---- observation
    last_call           \* the syscall executed by the last step, with its result

syncVars == <<holds, mutex_locked, mutex_wait_queue, sem_count, sem_wait_queue,
              condvar_wait_queue, blocked_order, sem_free>>
schedVars == <<ready_queue, current, task_status, kpc>>
lifeVars == <<task_proc, task_res, task_exit_code, timers, now_ms, kernel_panic,
              shutdown>>
procVars == <<proc_state, proc_pid, parent, children, is_zombie, exit_code, tasks,
              task_res_allocator, pid_allocator, pid2process, trap_cx, wstatus>>
sigVars == <<signal_mask, signal_recv, signal_actions, killed, frozen, handling_sig,
             trap_ctx_backup>>

spaceVars == <<memory_sets, frame_ptes, frame_data>>
memVars == <<FRAME_ALLOCATOR, frame_trackers, QUEUE_FRAMES, dma_regions, spaceVars>>

listVars == <<mutex_list, semaphore_list, condvar_list>>
tableVars == <<listVars, fd_table, user_image, input_dev>>

vars == <<schedVars, syncVars, lifeVars, procVars, sigVars, memVars, tableVars,
          last_call>>

\* no syscall was executed by the last step
NoCall == [call |-> "none"]

\* the ProcessControlBlock of initproc (task/mod.rs, INITPROC)
INITPROC == 1
\* the first process initproc forks
FirstChild == INITPROC + 1
\* the pid of initproc (task/id.rs)
IDLE_PID == 0
\* signal numbers run from 0 to MAX_SIG (task/signal.rs)
MAX_SIG == 31
Signals == 0 .. MAX_SIG

SyncObjects == {"mutex", "semaphore", "condvar"}

\* ============================================================== scheduler
\* manager.rs add_task: push to the back of the ready queue
add_task(rq, t) == push_back(rq, t)

\* manager.rs wakeup_task: Blocked -> Ready, then add_task
wakeup_status(st, t) == [st EXCEPT ![t] = "Ready"]

\* a wakeup that does not put the task on the ready queue
wakeup_opt_queue_lost(rq, o) == rq

\* wakeup of an optional task (the result of a pop_front)
wakeup_opt_queue(rq, o) == IF IsSome(o) THEN add_task(rq, Unwrap(o)) ELSE rq
wakeup_opt_status(st, o) == IF IsSome(o) THEN wakeup_status(st, Unwrap(o)) ELSE st

\* the kernel runs: it has neither panicked nor shut the machine down
KernelAlive == ~kernel_panic /\ ~shutdown

\* the running task is in user mode (its syscall, if any, has returned)
InUser(t) == KernelAlive /\ current = Some(t) /\ kpc[t] = "user"

\* the sync objects of the model are in the tables of the first child process
OwnsSyncObjects(t) == task_proc[t] = Some(FirstChild)

\* the running task is inside the kernel at position pos
InKernel(t, pos) == KernelAlive /\ current = Some(t) /\ kpc[t] = pos

\* history of the blocking order on each sync object
NoteBlocked(obj, t) == [blocked_order EXCEPT ![obj] = Append(@, t)]
NoteWoken(bo, obj, o) ==
    IF IsSome(o)
    THEN [bo EXCEPT ![obj] = SelectSeq(@, LAMBDA x : x # Unwrap(o))]
    ELSE bo

\* ============================================================ timer heap
\* the entries check_timer pops at time now: those with expire_ms <= now
Expired(ts, now) == {e \in ts : e.expire_ms <= now}
Unexpired(ts, now) == {e \in ts : ~(e.expire_ms <= now)}

\* an order that compares expire_ms itself
TimerCmpKeyPlain(e) == e.expire_ms

\* usize and isize of the kernel, at the width UsizeBits: a usize value at or
\* above 2^(UsizeBits-1) is negative as isize
WrapUsize(x) == x % (2 ^ UsizeBits)
AsIsize(x) == IF x >= 2 ^ (UsizeBits - 1) THEN x - 2 ^ UsizeBits ELSE x

\* impl Ord for TimerCondVar: entries compare as -(expire_ms as isize)
TimerCmpKey(e) == -AsIsize(e.expire_ms)

\* BinaryHeap::peek: a greatest entry by impl Ord for TimerCondVar
PeekTimers(ts) == {e \in ts : \A f \in ts : TimerCmpKey(e) >= TimerCmpKey(f)}

\* check_timer: the entries popped, in order.  The loop peeks the top of the
\* heap, pops it when it has expired and stops at the first top that has not.
RECURSIVE ExpiredOrders(_, _)
ExpiredOrders(ts, now) ==
    IF ts = {} THEN {<<>>}
    ELSE UNION {IF e.expire_ms <= now
                THEN {<<e>> \o q : q \in ExpiredOrders(ts \ {e}, now)}
                ELSE {<<>>} : e \in PeekTimers(ts)}

\* the heap after check_timer popped the entries q
AfterPops(ts, q) == ts \ {q[i] : i \in 1 .. Len(q)}

\* the tasks of a sequence of entries, which check_timer passes to wakeup_task
TasksOf(q) == [i \in 1 .. Len(q) |-> q[i].task]

\* what a check_timer that popped the entries q leaves in last_call
CheckTimerCall(q) == IF q = <<>> THEN NoCall ELSE [call |-> "check_timer", popped |-> q]

\* the same with every sweep recorded, also one that popped nothing
SweepCall(q) == [call |-> "check_timer", popped |-> q]

\* wakeup_task applied to a sequence of tasks
wakeup_all_queue(rq, ws) == rq \o ws
wakeup_all_status(st, ws) == [u \in DOMAIN st |-> IF u \in Range(ws) THEN "Ready" ELSE st[u]]

\* ========================================================== MutexBlocking
\* MutexBlocking::lock, the decision at mutex.rs:73: the mutex is taken at
\* once when free, otherwise the caller joins the wait queue and blocks
MutexLockOutcome(locked, wq, t) ==
    IF locked
    THEN [locked |-> locked, wq |-> push_back(wq, t), blocks |-> TRUE]
    ELSE [locked |-> TRUE, wq |-> wq, blocks |-> FALSE]

\* unlock that clears locked even when it hands the mutex to a waiter
MutexUnlockClearsAlways(locked, wq) ==
    LET p == pop_front(wq)
    IN  [locked |-> FALSE, wq |-> p.rest, woken |-> p.item]

\* unlock that wakes the waiter that blocked last
MutexUnlockWakesLast(locked, wq) ==
    LET p == pop_back(wq)
    IN  [locked |-> IF IsSome(p.item) THEN locked ELSE FALSE,
         wq |-> p.rest, woken |-> p.item]

\* MutexBlocking::unlock: wake the head waiter and keep the mutex locked
\* (ownership is handed over), or clear locked when nobody waits
MutexUnlockOutcome(locked, wq) ==
    LET p == pop_front(wq)
    IN  [locked |-> IF IsSome(p.item) THEN locked ELSE FALSE,
         wq |-> p.rest, woken |-> p.item]

\* ============================================================== Semaphore
\* down that tests the count it found, not the decremented one
SemDownTestsOldCount(count, wq, t) ==
    IF count < 0
    THEN [count |-> count - 1, wq |-> push_back(wq, t), blocks |-> TRUE]
    ELSE [count |-> count - 1, wq |-> wq, blocks |-> FALSE]

\* Semaphore::down: decrement; a negative result enqueues the caller, who blocks
SemDownOutcome(count, wq, t) ==
    IF count - 1 < 0
    THEN [count |-> count - 1, wq |-> push_back(wq, t), blocks |-> TRUE]
    ELSE [count |-> count - 1, wq |-> wq, blocks |-> FALSE]

\* Semaphore::up: increment; when the count was negative, wake the head waiter
SemUpOutcome(count, wq) ==
    IF count < 0
    THEN LET p == pop_front(wq)
         IN  [count |-> count + 1, wq |-> p.rest, woken |-> p.item]
    ELSE [count |-> count + 1, wq |-> wq, woken |-> None]

\* ================================================================ Condvar
\* signal that wakes the waiter that blocked last
CondvarSignalWakesLast(wq) ==
    LET p == pop_back(wq)
    IN  [wq |-> p.rest, woken |-> p.item]

\* Condvar::signal: wake the head waiter, if any
CondvarSignalOutcome(wq) ==
    LET p == pop_front(wq)
    IN  [wq |-> p.rest, woken |-> p.item]

\* a wait that does not put the caller on the queue
CondvarEnqueueLost(wq, t) == wq

\* Condvar::wait_with_mutex / wait_no_sched: the caller joins the back of the queue
CondvarEnqueue(wq, t) == push_back(wq, t)

\* ============================================ suspension points (task/mod.rs)
\* suspend_current_and_run_next: the current task becomes Ready, goes to the
\* back of the ready queue, and the idle loop takes over
SuspendCurrent(t) ==
    /\ task_status' = [task_status EXCEPT ![t] = "Ready"]
    /\ ready_queue' = add_task(ready_queue, t)
    /\ current' = None

\* run_tasks (idle loop): pop the head of the ready queue and switch to it
RunTasks ==
    /\ KernelAlive
    /\ current = None
    /\ ready_queue # <<>>
    /\ current' = Some(Head(ready_queue))
    /\ ready_queue' = Tail(ready_queue)
    /\ task_status' = [task_status EXCEPT ![Head(ready_queue)] = "Running"]

\* ====================================================== SpecSync: actions
\* sys_yield
SysYield(t) ==
    /\ InUser(t)
    /\ SuspendCurrent(t)
    /\ UNCHANGED <<kpc, holds, mutex_locked, mutex_wait_queue, sem_count, sem_free,
                   sem_wait_queue, condvar_wait_queue, blocked_order>>
    /\ UNCHANGED <<lifeVars, procVars, sigVars>>
    /\ last_call' = NoCall
    /\ UNCHANGED <<memVars, tableVars>>

\* trap_handler, SupervisorTimer from user mode (trap/mod.rs:138-142):
\* check_timer wakes the expired sleepers, then suspend_current_and_run_next
\* with all set, a sweep that popped nothing is recorded in last_call too
TimerPreemptAs(t, all) ==
    /\ InUser(t)
    /\ \E q \in ExpiredOrders(timers, now_ms) :
          /\ timers' = AfterPops(timers, q)
          /\ task_status' = [wakeup_all_status(task_status, TasksOf(q))
                               EXCEPT ![t] = "Ready"]
          /\ ready_queue' = add_task(wakeup_all_queue(ready_queue, TasksOf(q)), t)
          /\ last_call' = IF all THEN SweepCall(q) ELSE CheckTimerCall(q)
    /\ current' = None
    /\ UNCHANGED <<kpc, syncVars, procVars, sigVars>>
    /\ UNCHANGED <<task_proc, task_res, task_exit_code, now_ms, kernel_panic, shutdown>>
    /\ UNCHANGED <<memVars, tableVars>>

TimerPreempt(t) == TimerPreemptAs(t, FALSE)

\* the idle loop dispatches the next ready task
Dispatch ==
    /\ RunTasks
    /\ UNCHANGED <<kpc, holds, mutex_locked, mutex_wait_queue, sem_count, sem_free,
                   sem_wait_queue, condvar_wait_queue, blocked_order>>
    /\ UNCHANGED <<lifeVars, procVars, sigVars>>
    /\ last_call' = NoCall
    /\ UNCHANGED <<memVars, tableVars>>

\* sys_mutex_lock by a thread that does not hold the mutex
SysMutexLock(t) ==
    /\ InUser(t)
    /\ OwnsSyncObjects(t)
    /\ ~holds[t]
    /\ LET r == MutexLockOutcome(mutex_locked, mutex_wait_queue, t)
       IN  /\ mutex_locked' = r.locked
           /\ mutex_wait_queue' = r.wq
           /\ IF r.blocks
              THEN \* block_current_and_run_next
                   /\ task_status' = [task_status EXCEPT ![t] = "Blocked"]
                   /\ current' = None
                   /\ kpc' = [kpc EXCEPT ![t] = "lock_blocked"]
                   /\ blocked_order' = NoteBlocked("mutex", t)
                   /\ UNCHANGED holds
              ELSE /\ holds' = [holds EXCEPT ![t] = TRUE]
                   /\ UNCHANGED <<task_status, current, kpc, blocked_order>>
    /\ UNCHANGED <<ready_queue, sem_count, sem_free, sem_wait_queue, condvar_wait_queue>>
    /\ UNCHANGED <<lifeVars, procVars, sigVars>>
    /\ last_call' = NoCall
    /\ UNCHANGED <<memVars, tableVars>>

\* a task woken inside MutexBlocking::lock runs again: lock() returns
ResumeLock(t) ==
    /\ InKernel(t, "lock_blocked")
    /\ kpc' = [kpc EXCEPT ![t] = "user"]
    /\ holds' = [holds EXCEPT ![t] = TRUE]
    /\ UNCHANGED <<ready_queue, current, task_status, mutex_locked, mutex_wait_queue,
                   sem_count, sem_free, sem_wait_queue, condvar_wait_queue, blocked_order>>
    /\ UNCHANGED <<lifeVars, procVars, sigVars>>
    /\ last_call' = NoCall
    /\ UNCHANGED <<memVars, tableVars>>

\* sys_mutex_unlock by the thread that holds the mutex
SysMutexUnlock(t) ==
    /\ InUser(t)
    /\ OwnsSyncObjects(t)
    /\ holds[t]
    /\ LET r == MutexUnlockOutcome(mutex_locked, mutex_wait_queue)
       IN  /\ mutex_locked' = r.locked
           /\ mutex_wait_queue' = r.wq
           /\ task_status' = wakeup_opt_status(task_status, r.woken)
           /\ ready_queue' = wakeup_opt_queue(ready_queue, r.woken)
           /\ blocked_order' = NoteWoken(blocked_order, "mutex", r.woken)
    /\ holds' = [holds EXCEPT ![t] = FALSE]
    /\ UNCHANGED <<current, kpc, sem_count, sem_free, sem_wait_queue, condvar_wait_queue>>
    /\ UNCHANGED <<lifeVars, procVars, sigVars>>
    /\ last_call' = NoCall
    /\ UNCHANGED <<memVars, tableVars>>

\* sys_semaphore_down
SysSemaphoreDown(t) ==
    /\ InUser(t)
    /\ OwnsSyncObjects(t)
    /\ LET r == SemDownOutcome(sem_count, sem_wait_queue, t)
       IN  /\ sem_count' = r.count
           /\ sem_wait_queue' = r.wq
           /\ IF r.blocks
              THEN /\ task_status' = [task_status EXCEPT ![t] = "Blocked"]
                   /\ current' = None
                   /\ kpc' = [kpc EXCEPT ![t] = "down_blocked"]
                   /\ blocked_order' = NoteBlocked("semaphore", t)
              ELSE UNCHANGED <<task_status, current, kpc, blocked_order>>
           /\ sem_free' = IF r.blocks THEN sem_free ELSE sem_free - 1
    /\ UNCHANGED <<ready_queue, holds, mutex_locked, mutex_wait_queue,
                   condvar_wait_queue>>
    /\ UNCHANGED <<lifeVars, procVars, sigVars>>
    /\ last_call' = NoCall
    /\ UNCHANGED <<memVars, tableVars>>

\* a task woken inside Semaphore::down runs again: down() returns
ResumeDown(t) ==
    /\ InKernel(t, "down_blocked")
    /\ kpc' = [kpc EXCEPT ![t] = "user"]
    /\ sem_free' = sem_free - 1
    /\ UNCHANGED <<ready_queue, current, task_status, holds, mutex_locked,
                   mutex_wait_queue, sem_count, sem_wait_queue, condvar_wait_queue,
                   blocked_order>>
    /\ UNCHANGED <<lifeVars, procVars, sigVars>>
    /\ last_call' = NoCall
    /\ UNCHANGED <<memVars, tableVars>>

\* sys_semaphore_up (the count is capped to keep the model finite)
SysSemaphoreUp(t) ==
    /\ InUser(t)
    /\ OwnsSyncObjects(t)
    /\ sem_count < MaxSemCount
    /\ LET r == SemUpOutcome(sem_count, sem_wait_queue)
       IN  /\ sem_count' = r.count
           /\ sem_wait_queue' = r.wq
           /\ task_status' = wakeup_opt_status(task_status, r.woken)
           /\ ready_queue' = wakeup_opt_queue(ready_queue, r.woken)
           /\ blocked_order' = NoteWoken(blocked_order, "semaphore", r.woken)
    /\ sem_free' = sem_free + 1
    /\ UNCHANGED <<current, kpc, holds, mutex_locked, mutex_wait_queue,
                   condvar_wait_queue>>
    /\ UNCHANGED <<lifeVars, procVars, sigVars>>
    /\ last_call' = NoCall
    /\ UNCHANGED <<memVars, tableVars>>

\* sys_condvar_wait by the thread that holds the mutex: Condvar::wait_with_mutex
\* unlocks the mutex, joins the condvar queue and blocks
SysCondvarWait(t) ==
    /\ InUser(t)
    /\ OwnsSyncObjects(t)
    /\ holds[t]
    /\ LET r == MutexUnlockOutcome(mutex_locked, mutex_wait_queue)
       IN  /\ mutex_locked' = r.locked
           /\ mutex_wait_queue' = r.wq
           /\ task_status' = [wakeup_opt_status(task_status, r.woken)
                                EXCEPT ![t] = "Blocked"]
           /\ ready_queue' = wakeup_opt_queue(ready_queue, r.woken)
           /\ blocked_order' =
                 [NoteWoken(blocked_order, "mutex", r.woken)
                    EXCEPT !["condvar"] = Append(@, t)]
    /\ condvar_wait_queue' = CondvarEnqueue(condvar_wait_queue, t)
    /\ holds' = [holds EXCEPT ![t] = FALSE]
    /\ current' = None
    /\ kpc' = [kpc EXCEPT ![t] = "wait_blocked"]
    /\ UNCHANGED <<sem_count, sem_free, sem_wait_queue>>
    /\ UNCHANGED <<lifeVars, procVars, sigVars>>
    /\ last_call' = NoCall
    /\ UNCHANGED <<memVars, tableVars>>

\* a task woken inside Condvar::wait_with_mutex runs again: it re-locks the mutex
ResumeWait(t) ==
    /\ InKernel(t, "wait_blocked")
    /\ LET r == MutexLockOutcome(mutex_locked, mutex_wait_queue, t)
       IN  /\ mutex_locked' = r.locked
           /\ mutex_wait_queue' = r.wq
           /\ IF r.blocks
              THEN /\ task_status' = [task_status EXCEPT ![t] = "Blocked"]
                   /\ current' = None
                   /\ kpc' = [kpc EXCEPT ![t] = "lock_blocked"]
                   /\ blocked_order' = NoteBlocked("mutex", t)
                   /\ UNCHANGED holds
              ELSE /\ holds' = [holds EXCEPT ![t] = TRUE]
                   /\ kpc' = [kpc EXCEPT ![t] = "user"]
                   /\ UNCHANGED <<task_status, current, blocked_order>>
    /\ UNCHANGED <<ready_queue, sem_count, sem_free, sem_wait_queue, condvar_wait_queue>>
    /\ UNCHANGED <<lifeVars, procVars, sigVars>>
    /\ last_call' = NoCall
    /\ UNCHANGED <<memVars, tableVars>>

\* sys_condvar_signal
SysCondvarSignal(t) ==
    /\ InUser(t)
    /\ OwnsSyncObjects(t)
    /\ LET r == CondvarSignalOutcome(condvar_wait_queue)
       IN  /\ condvar_wait_queue' = r.wq
           /\ task_status' = wakeup_opt_status(task_status, r.woken)
           /\ ready_queue' = wakeup_opt_queue(ready_queue, r.woken)
           /\ blocked_order' = NoteWoken(blocked_order, "condvar", r.woken)
    /\ UNCHANGED <<current, kpc, holds, mutex_locked, mutex_wait_queue, sem_count, sem_free,
                   sem_wait_queue>>
    /\ UNCHANGED <<lifeVars, procVars, sigVars>>
    /\ last_call' = NoCall
    /\ UNCHANGED <<memVars, tableVars>>

\* ------------------------------------------------ initial values, shared
\* the user image of a process that does not exist, and of one whose program
\* was not started by exec here: exec wrote nothing on its user stack
NoImage == [elf |-> "none", mem |-> <<>>]
\* VirtIOInputWrapper::new: no event queued, nobody waiting; arrived counts the
\* events the device has delivered, taken lists the events read_event returned
NoInput == [events |-> <<>>, wait_queue |-> <<>>, arrived |-> 0, taken |-> <<>>]
BootImage == [elf |-> "initproc", mem |-> <<>>]

\* TrapContext::app_init_context: registers zeroed, sepc at the entry point.
\* Of the TrapContext the model keeps a0 (x10), a2 (x12) and sepc.
InitTrapCx == [x10 |-> 0, x12 |-> 0, sepc |-> 0]

\* SignalActions::default for the signals of the model: no handler
DefaultActions == [s \in Signals |-> [handler |-> 0, mask |-> {}]]

\* the signal state ProcessControlBlock::new gives every process
InitSignals ==
    /\ signal_mask = [p \in Procs |-> {}]
    /\ signal_recv = [p \in Procs |-> {}]
    /\ signal_actions = [p \in Procs |-> DefaultActions]
    /\ killed = [p \in Procs |-> FALSE]
    /\ frozen = [p \in Procs |-> FALSE]
    /\ handling_sig = [p \in Procs |-> -1]
    /\ trap_ctx_backup = [p \in Procs |-> None]

\* the process FirstChild has created one mutex, one semaphore (with
\* sys_semaphore_create(res_count)) and one condvar (handle 0 of each list);
\* none is in use
InitSyncObjectsOf(res_count) ==
    /\ holds = [t \in Tasks |-> FALSE]
    /\ mutex_locked = FALSE
    /\ mutex_wait_queue = <<>>
    /\ sem_count = res_count
    /\ sem_free = res_count
    /\ sem_wait_queue = <<>>
    /\ condvar_wait_queue = <<>>
    /\ blocked_order = [o \in SyncObjects |-> <<>>]
    /\ mutex_list = [p \in Procs |-> IF p = FirstChild THEN <<Some("mutex")>> ELSE <<>>]
    /\ semaphore_list =
          [p \in Procs |-> IF p = FirstChild THEN <<Some("semaphore")>> ELSE <<>>]
    /\ condvar_list = [p \in Procs |-> IF p = FirstChild THEN <<Some("condvar")>> ELSE <<>>]

\* the semaphore was created with no resource
InitSyncObjects == InitSyncObjectsOf(0)

\* the fd_table of a new process: 0 stdin, 1 stdout, 2 stderr (stdout)
StdFds == <<Some("stdin"), Some("stdout"), Some("stdout")>>

\* initproc (pid 0) has forked one child process (pid 1); the rest is unborn
InitProcesses ==
    /\ proc_state = [p \in Procs |-> IF p \in {INITPROC, FirstChild} THEN "live" ELSE "unborn"]
    /\ proc_pid = [p \in Procs |-> IF p = INITPROC THEN Some(IDLE_PID)
                                   ELSE IF p = FirstChild THEN Some(IDLE_PID + 1)
                                   ELSE None]
    /\ parent = [p \in Procs |-> IF p = FirstChild THEN Some(INITPROC) ELSE None]
    /\ children = [p \in Procs |-> IF p = INITPROC THEN <<FirstChild>> ELSE <<>>]
    /\ is_zombie = [p \in Procs |-> FALSE]
    /\ exit_code = [p \in Procs |-> 0]
    /\ pid_allocator = [current |-> IDLE_PID + 2, recycled |-> <<>>]
    /\ pid2process = {<<IDLE_PID, INITPROC>>, <<IDLE_PID + 1, FirstChild>>}
    /\ wstatus = [p \in Procs |-> None]
    /\ fd_table = [p \in Procs |-> IF p \in {INITPROC, FirstChild} THEN StdFds ELSE <<>>]
    /\ user_image = [p \in Procs |-> IF p \in {INITPROC, FirstChild} THEN BootImage ELSE NoImage]
    /\ input_dev = NoInput

\* MemorySet identities: that of initproc, the one process not made by fork,
\* and that of the process it forks
InitprocSpace == 1
ForkedSpace == 2
MemorySets == {InitprocSpace, ForkedSpace}

\* a page-table entry, and PageTableEntry::empty
Pte(ppn, flags) == [valid |-> TRUE, ppn |-> ppn, flags |-> flags]
EmptyPte == [valid |-> FALSE, ppn |-> 0, flags |-> {}]

\* the index of an entry inside one page-table frame; a frame of zeroes
PtIdx == {0, 1}
ZeroTable == [i \in PtIdx |-> EmptyPte]

\* the framebuffer of the GPU device: physical pages outside the allocator
FB_PPN == 64

\* the physical page of the trampoline section, strampoline
STRAMPOLINE_PPN == 32

\* the physical pages whose contents the model keeps
DataPpns == (0 .. NSpaceFrames - 1) \cup {FB_PPN}

\* init_frame_allocator over the frames [0, frame_end): nothing allocated
\* yet, no MemorySet built
\* init(l, r) of the frame allocator with l = frame_start, r = frame_end
InitMemoryFrom(frame_start, frame_end) ==
    /\ FRAME_ALLOCATOR = [current |-> frame_start, end |-> frame_end, recycled |-> <<>>]
    /\ frame_trackers = [ppn \in 0 .. NFrames - 1 |-> 0]
    /\ QUEUE_FRAMES = <<>>
    /\ dma_regions = {}
    /\ memory_sets = [m \in MemorySets |->
                         [stage |-> "none", root_ppn |-> 0, frames |-> <<>>, areas |-> <<>>]]
    /\ frame_ptes = [ppn \in 0 .. NSpaceFrames - 1 |-> ZeroTable]
    /\ frame_data = [ppn \in DataPpns |-> 0]

InitMemoryOf(frame_end) == InitMemoryFrom(0, frame_end)

InitMemory == InitMemoryOf(NFrames)

\* ------------------------------------------------------- SpecSync: Init
\* the threads of one process, after thread 0 created the others: thread 0
\* runs, the new threads wait in the ready queue in creation order
InitSyncOf(res_count) ==
    /\ current = Some(1)
    /\ ready_queue = [i \in 1 .. (NThreads - 1) |-> i + 1]
    /\ task_status = [t \in Tasks |-> IF t = 1 THEN "Running" ELSE "Ready"]
    /\ kpc = [t \in Tasks |-> "user"]
    /\ InitSyncObjectsOf(res_count)
    /\ task_proc = [t \in Tasks |-> Some(FirstChild)]
    /\ task_res = [t \in Tasks |-> Some(t - 1)]
    /\ task_exit_code = [t \in Tasks |-> None]
    /\ timers = {}
    /\ now_ms = 0
    /\ kernel_panic = FALSE
    /\ shutdown = FALSE
    /\ InitProcesses
    /\ tasks = [p \in Procs |-> IF p = FirstChild THEN [i \in 1 .. NThreads |-> Some(i)]
                                ELSE <<>>]
    /\ task_res_allocator =
          [p \in Procs |-> [current |-> IF p = FirstChild THEN NThreads ELSE 0,
                            recycled |-> <<>>]]
    /\ trap_cx = [t \in Tasks |-> InitTrapCx]
    /\ InitSignals
    /\ InitMemory
    /\ last_call = NoCall

InitSync == InitSyncOf(0)

NextSync ==
    \/ Dispatch
    \/ \E t \in Tasks : SysYield(t)
    \/ \E t \in Tasks : TimerPreempt(t)
    \/ \E t \in Tasks : SysMutexLock(t)
    \/ \E t \in Tasks : ResumeLock(t)
    \/ \E t \in Tasks : SysMutexUnlock(t)
    \/ \E t \in Tasks : SysSemaphoreDown(t)
    \/ \E t \in Tasks : ResumeDown(t)
    \/ \E t \in Tasks : SysSemaphoreUp(t)
    \/ \E t \in Tasks : SysCondvarWait(t)
    \/ \E t \in Tasks : ResumeWait(t)
    \/ \E t \in Tasks : SysCondvarSignal(t)

SpecSync == InitSync /\ [][NextSync]_vars

\* ------------------------------------------------------- SpecUnlock
\* sys_mutex_unlock as any user thread may issue it, whether or not it holds
\* the mutex; assert!(locked) of MutexBlocking::unlock panics the kernel
SysMutexUnlockAny(t) ==
    /\ InUser(t)
    /\ OwnsSyncObjects(t)
    /\ last_call' = [call |-> "mutex_unlock", task |-> t, held |-> holds[t],
                     panics |-> ~mutex_locked]
    /\ IF ~mutex_locked
       THEN /\ kernel_panic' = TRUE
            /\ UNCHANGED <<schedVars, syncVars>>
       ELSE LET r == MutexUnlockOutcome(mutex_locked, mutex_wait_queue)
            IN  /\ mutex_locked' = r.locked
                /\ mutex_wait_queue' = r.wq
                /\ task_status' = wakeup_opt_status(task_status, r.woken)
                /\ ready_queue' = wakeup_opt_queue(ready_queue, r.woken)
                /\ blocked_order' = NoteWoken(blocked_order, "mutex", r.woken)
                /\ holds' = [holds EXCEPT ![t] = FALSE]
                /\ UNCHANGED <<current, kpc, sem_count, sem_free, sem_wait_queue,
                               condvar_wait_queue, kernel_panic>>
    /\ UNCHANGED <<task_proc, task_res, task_exit_code, timers, now_ms, shutdown>>
    /\ UNCHANGED <<procVars, sigVars, memVars, tableVars>>

NextUnlock ==
    \/ Dispatch
    \/ \E t \in Tasks : SysYield(t)
    \/ \E t \in Tasks : SysMutexLock(t)
    \/ \E t \in Tasks : ResumeLock(t)
    \/ \E t \in Tasks : SysMutexUnlockAny(t)

SpecUnlock == InitSync /\ [][NextUnlock]_vars

\* ------------------------------------------------------- SpecMutexLive
\* the threads of one process use the blocking mutex only
NextMutex ==
    \/ Dispatch
    \/ \E t \in Tasks : SysYield(t)
    \/ \E t \in Tasks : TimerPreempt(t)
    \/ \E t \in Tasks : SysMutexLock(t)
    \/ \E t \in Tasks : ResumeLock(t)
    \/ \E t \in Tasks : SysMutexUnlock(t)

\* fair scheduling: the idle loop keeps dispatching (run_tasks), the timer
\* interrupt keeps preempting the thread in user mode, a dispatched thread
\* goes on inside the kernel; and every thread that holds the mutex
\* eventually calls unlock()
FairMutex ==
    /\ WF_vars(Dispatch)
    /\ WF_vars(\E t \in Tasks : TimerPreempt(t))
    /\ \A t \in Tasks : WF_vars(ResumeLock(t))
    /\ \A t \in Tasks : SF_vars(SysMutexUnlock(t))

SpecMutexLive == InitSync /\ [][NextMutex]_vars /\ FairMutex

\* ------------------------------------------------------- SpecSem
\* the threads of one process use the semaphore only, created with any
\* resource count up to MaxSemCount
InitSem == \E res_count \in 0 .. MaxSemCount : InitSyncOf(res_count)

NextSem ==
    \/ Dispatch
    \/ \E t \in Tasks : SysYield(t)
    \/ \E t \in Tasks : TimerPreempt(t)
    \/ \E t \in Tasks : SysSemaphoreDown(t)
    \/ \E t \in Tasks : ResumeDown(t)
    \/ \E t \in Tasks : SysSemaphoreUp(t)

SpecSem == InitSem /\ [][NextSem]_vars

\* ====================================================== RecycleAllocator
\* RecycleAllocator::alloc: reissue the id freed last, else the next new id
RecycleAlloc(a) ==
    IF a.recycled # <<>>
    THEN [id |-> a.recycled[Len(a.recycled)],
          next |-> [a EXCEPT !.recycled = SubSeq(@, 1, Len(@) - 1)]]
    ELSE [id |-> a.current, next |-> [a EXCEPT !.current = @ + 1]]

\* RecycleAllocator::dealloc of a sequence of ids, in order
RecycleDeallocAll(a, ids) == [a EXCEPT !.recycled = @ \o ids]

\* ===================================================== thread lifecycle
\* the process and the tid of a live task
ProcOf(t) == Unwrap(task_proc[t])
TidOf(t) == Unwrap(task_res[t])

\* the tasks a thread table holds (its Some entries), in table order
TableTasks(tbl) ==
    LET idx == SelectSeq([i \in 1 .. Len(tbl) |-> i], LAMBDA i : IsSome(tbl[i]))
    IN  [k \in 1 .. Len(idx) |-> Unwrap(tbl[idx[k]])]

\* the tids the tasks of a sequence still own
OwnedTids(ts) ==
    LET live == SelectSeq(ts, LAMBDA u : IsSome(task_res[u]))
    IN  [k \in 1 .. Len(live) |-> TidOf(live[k])]

\* manager.rs remove_task: drop a set of tasks from the ready queue
remove_tasks(rq, us) == SelectSeq(rq, LAMBDA u : u \notin us)

\* remove_inactive_task with timer.rs remove_timer called as well
RemoveInactiveAlsoTimers(rq, ts, us) ==
    [ready_queue |-> remove_tasks(rq, us), timers |-> {e \in ts : e.task \notin us}]

\* remove_inactive_task (task/mod.rs:133-136) applied to a set of tasks:
\* remove_task only, the call of remove_timer is commented out
RemoveInactive(rq, ts, us) ==
    [ready_queue |-> remove_tasks(rq, us), timers |-> ts]

\* an exit that clears the children list without handing the children over
ReparentChildrenDropped(ch, p) == [ch EXCEPT ![p] = <<>>]

\* exit_current_and_run_next (task/mod.rs:85-91, 108): every child is pushed
\* onto the children list of INITPROC, then the own list is cleared
ReparentChildren(ch, p) == [ch EXCEPT ![INITPROC] = @ \o ch[p], ![p] = <<>>]

\* exit_current_and_run_next(exit_code), called by the current task t
ExitCurrentAndRunNext(t, code) ==
    LET p == ProcOf(t)
        tid == TidOf(t)
        pid == Unwrap(proc_pid[p])
        others == TableTasks(tasks[p])
        gone == RemoveInactive(ready_queue, timers, Range(others))
    IN  /\ current' = None
        /\ task_exit_code' = [task_exit_code EXCEPT ![t] = Some(code)]
        /\ kpc' = [kpc EXCEPT ![t] = "exited"]
        /\ IF tid = 0 /\ pid = IDLE_PID
           THEN \* the idle process exits: shutdown, which never returns
                /\ shutdown' = TRUE
                /\ task_res' = [task_res EXCEPT ![t] = None]
                /\ task_res_allocator' =
                      [task_res_allocator EXCEPT ![p] = RecycleDeallocAll(@, <<tid>>)]
                /\ UNCHANGED <<ready_queue, timers, pid2process, is_zombie, exit_code,
                               children, parent, tasks, fd_table,
                               user_image, input_dev>>
           ELSE IF tid = 0
           THEN \* the process leader exits
                /\ pid2process' = pid2process \ {<<pid, p>>}
                /\ is_zombie' = [is_zombie EXCEPT ![p] = TRUE]
                /\ exit_code' = [exit_code EXCEPT ![p] = code]
                /\ parent' = [c \in Procs |-> IF c \in Range(children[p])
                                              THEN Some(INITPROC) ELSE parent[c]]
                /\ children' = ReparentChildren(children, p)
                /\ ready_queue' = gone.ready_queue
                /\ timers' = gone.timers
                /\ task_res' = [u \in DOMAIN task_res |->
                                   IF u = t \/ u \in Range(others) THEN None
                                   ELSE task_res[u]]
                /\ task_res_allocator' =
                      [task_res_allocator EXCEPT ![p] =
                          RecycleDeallocAll(@, <<tid>> \o
                              OwnedTids(SelectSeq(others, LAMBDA u : u # t)))]
                /\ tasks' = [tasks EXCEPT ![p] = SubSeq(@, 1, 1)]
                /\ fd_table' = [fd_table EXCEPT ![p] = <<>>]
                /\ UNCHANGED <<user_image, input_dev>>
                /\ UNCHANGED shutdown
           ELSE \* another thread exits: it only releases its own resources
                /\ task_res' = [task_res EXCEPT ![t] = None]
                /\ task_res_allocator' =
                      [task_res_allocator EXCEPT ![p] = RecycleDeallocAll(@, <<tid>>)]
                /\ UNCHANGED <<ready_queue, timers, pid2process, is_zombie, exit_code,
                               children, parent, tasks, shutdown, fd_table,
                               user_image, input_dev>>

\* the exit codes user programs pass to exit
ExitCodes == {0, 3}

\* sys_exit
SysExit(t, code) ==
    /\ InUser(t)
    /\ ExitCurrentAndRunNext(t, code)
    /\ UNCHANGED <<task_status, syncVars, sigVars>>
    /\ UNCHANGED <<task_proc, now_ms, kernel_panic>>
    /\ UNCHANGED <<proc_state, proc_pid, pid_allocator, trap_cx, wstatus>>
    /\ last_call' = [call |-> "exit", task |-> t, arg |-> code]
    /\ UNCHANGED <<memVars, listVars>>

\* the smallest TaskControlBlock identity not in use yet
FreshTask == CHOOSE n \in Tasks : task_proc[n] = None /\ \A m \in Tasks : task_proc[m] = None => n <= m

\* the thread table after sys_thread_create stored the new task at its tid
\* (syscall/thread.rs:27-32)
StoreThread(tbl, tid, n) ==
    IF Len(tbl) = tid THEN Append(tbl, Some(n)) ELSE [tbl EXCEPT ![tid + 1] = Some(n)]

\* sys_thread_create(entry, arg)
SysThreadCreate(t, entry, arg) ==
    /\ InUser(t)
    /\ \E n \in Tasks : task_proc[n] = None
    /\ LET p == ProcOf(t)
           n == FreshTask
           a == RecycleAlloc(task_res_allocator[p])
       IN  /\ task_res_allocator' = [task_res_allocator EXCEPT ![p] = a.next]
           /\ task_proc' = [task_proc EXCEPT ![n] = Some(p)]
           /\ task_res' = [task_res EXCEPT ![n] = Some(a.id)]
           /\ task_status' = [task_status EXCEPT ![n] = "Ready"]
           /\ ready_queue' = add_task(ready_queue, n)
           /\ IF Len(tasks[p]) >= a.id
              THEN /\ tasks' = [tasks EXCEPT ![p] = StoreThread(@, a.id, n)]
                   /\ UNCHANGED kernel_panic
              ELSE /\ kernel_panic' = TRUE
                   /\ UNCHANGED tasks
           /\ trap_cx' = [trap_cx EXCEPT ![n] = [InitTrapCx EXCEPT !.sepc = entry, !.x10 = arg]]
           /\ last_call' = [call |-> "thread_create", task |-> t, ret |-> a.id]
    /\ UNCHANGED <<current, kpc, syncVars, sigVars>>
    /\ UNCHANGED <<task_exit_code, timers, now_ms, shutdown>>
    /\ UNCHANGED <<proc_state, proc_pid, parent, children, is_zombie, exit_code,
                   pid_allocator, pid2process, wstatus>>
    /\ UNCHANGED <<memVars, tableVars>>

\* sys_waittid with the index checked against the length of the table
WaittidChecksBounds(tbl, codes, own, tid) ==
    IF own = tid \/ tid >= Len(tbl) THEN [panics |-> FALSE, ret |-> -1, tasks |-> tbl]
    ELSE IF tbl[tid + 1] = None THEN [panics |-> FALSE, ret |-> -1, tasks |-> tbl]
    ELSE IF IsSome(codes[Unwrap(tbl[tid + 1])])
    THEN [panics |-> FALSE, ret |-> Unwrap(codes[Unwrap(tbl[tid + 1])]),
          tasks |-> [tbl EXCEPT ![tid + 1] = None]]
    ELSE [panics |-> FALSE, ret |-> -2, tasks |-> tbl]

\* sys_waittid(tid) by the thread with tid own: the result and the new
\* thread table; tasks[tid] panics for an index beyond the table
WaittidOutcome(tbl, codes, own, tid) ==
    IF own = tid THEN [panics |-> FALSE, ret |-> -1, tasks |-> tbl]
    ELSE IF tid >= Len(tbl) THEN [panics |-> TRUE, ret |-> 0, tasks |-> tbl]
    ELSE IF tbl[tid + 1] = None THEN [panics |-> FALSE, ret |-> -1, tasks |-> tbl]
    ELSE IF IsSome(codes[Unwrap(tbl[tid + 1])])
    THEN [panics |-> FALSE, ret |-> Unwrap(codes[Unwrap(tbl[tid + 1])]),
          tasks |-> [tbl EXCEPT ![tid + 1] = None]]
    ELSE [panics |-> FALSE, ret |-> -2, tasks |-> tbl]

\* sys_waittid
SysWaittid(t, tid) ==
    /\ InUser(t)
    /\ LET p == ProcOf(t)
           r == WaittidOutcome(tasks[p], task_exit_code, TidOf(t), tid)
       IN  /\ tasks' = [tasks EXCEPT ![p] = r.tasks]
           /\ kernel_panic' = r.panics
           /\ last_call' = [call |-> "waittid", task |-> t, arg |-> tid,
                            panics |-> r.panics, ret |-> r.ret]
    /\ UNCHANGED <<schedVars, syncVars, sigVars>>
    /\ UNCHANGED <<task_proc, task_res, task_exit_code, timers, now_ms, shutdown>>
    /\ UNCHANGED <<proc_state, proc_pid, parent, children, is_zombie, exit_code,
                   task_res_allocator, pid_allocator, pid2process, trap_cx, wstatus>>
    /\ UNCHANGED <<memVars, tableVars>>

\* sys_sleep(ms): add_timer, then block_current_and_run_next
SysSleep(t, ms) ==
    /\ InUser(t)
    /\ timers' = timers \cup {[expire_ms |-> WrapUsize(now_ms + ms), task |-> t]}
    /\ task_status' = [task_status EXCEPT ![t] = "Blocked"]
    /\ current' = None
    /\ kpc' = [kpc EXCEPT ![t] = "sleep_blocked"]
    /\ UNCHANGED <<ready_queue, syncVars, procVars, sigVars>>
    /\ UNCHANGED <<task_proc, task_res, task_exit_code, now_ms, kernel_panic, shutdown>>
    /\ last_call' = NoCall
    /\ UNCHANGED <<memVars, tableVars>>

\* a sleeper woken by check_timer runs again: sys_sleep returns 0
ResumeSleep(t) ==
    /\ InKernel(t, "sleep_blocked")
    /\ IsSome(task_res[t])
    /\ kpc' = [kpc EXCEPT ![t] = "user"]
    /\ UNCHANGED <<ready_queue, current, task_status, syncVars, lifeVars, procVars,
                   sigVars>>
    /\ last_call' = [call |-> "sleep", task |-> t, ret |-> 0]
    /\ UNCHANGED <<memVars, tableVars>>

\* a task whose process leader has exited runs again: its user resource is
\* gone, and trap_return unwraps it
ResumeTornDown(t) ==
    /\ KernelAlive
    /\ current = Some(t)
    /\ kpc[t] # "exited"
    /\ task_res[t] = None
    /\ kernel_panic' = TRUE
    /\ UNCHANGED <<schedVars, syncVars, procVars, sigVars>>
    /\ UNCHANGED <<task_proc, task_res, task_exit_code, timers, now_ms, shutdown>>
    /\ last_call' = NoCall
    /\ UNCHANGED <<memVars, tableVars>>

\* the clock advances by one millisecond
Tick ==
    /\ KernelAlive
    /\ now_ms < MaxTime
    /\ now_ms' = now_ms + 1
    /\ UNCHANGED <<schedVars, syncVars, procVars, sigVars>>
    /\ UNCHANGED <<task_proc, task_res, task_exit_code, timers, kernel_panic, shutdown>>
    /\ last_call' = NoCall
    /\ UNCHANGED <<memVars, tableVars>>

\* trap_from_kernel, SupervisorTimer, taken in the idle loop: check_timer
\* only, no task switch
KernelTimerIrqAs(all) ==
    /\ KernelAlive
    /\ current = None
    /\ \E q \in ExpiredOrders(timers, now_ms) :
          /\ timers' = AfterPops(timers, q)
          /\ task_status' = wakeup_all_status(task_status, TasksOf(q))
          /\ ready_queue' = wakeup_all_queue(ready_queue, TasksOf(q))
          /\ last_call' = IF all THEN SweepCall(q) ELSE CheckTimerCall(q)
    /\ UNCHANGED <<current, kpc, syncVars, procVars, sigVars>>
    /\ UNCHANGED <<task_proc, task_res, task_exit_code, now_ms, kernel_panic, shutdown>>
    /\ UNCHANGED <<memVars, tableVars>>

KernelTimerIrq == KernelTimerIrqAs(FALSE)

\* ------------------------------------------------------- SpecLife: Init
\* initproc runs after it forked the first child, whose leader thread waits
\* in the ready queue; no other TaskControlBlock exists yet
InitLifeFrom(frame_start) ==
    /\ current = Some(1)
    /\ ready_queue = <<2>>
    /\ task_status = [t \in Tasks |-> IF t = 1 THEN "Running" ELSE "Ready"]
    /\ kpc = [t \in Tasks |-> "user"]
    /\ InitSyncObjects
    /\ task_proc = [t \in Tasks |-> IF t = 1 THEN Some(INITPROC)
                                    ELSE IF t = 2 THEN Some(FirstChild) ELSE None]
    /\ task_res = [t \in Tasks |-> IF t <= 2 THEN Some(0) ELSE None]
    /\ task_exit_code = [t \in Tasks |-> None]
    /\ timers = {}
    /\ now_ms = 0
    /\ kernel_panic = FALSE
    /\ shutdown = FALSE
    /\ InitProcesses
    /\ tasks = [p \in Procs |-> IF p = INITPROC THEN <<Some(1)>>
                                ELSE IF p = FirstChild THEN <<Some(2)>> ELSE <<>>]
    /\ task_res_allocator =
          [p \in Procs |-> [current |-> IF p \in {INITPROC, FirstChild} THEN 1 ELSE 0,
                            recycled |-> <<>>]]
    /\ trap_cx = [t \in Tasks |-> InitTrapCx]
    /\ InitSignals
    /\ InitMemoryFrom(frame_start, NFrames)
    /\ last_call = NoCall

InitLife == InitLifeFrom(0)

\* the arguments user programs pass to thread_create
ThreadEntries == {8}
ThreadArgs == {1}

\* the threads of initproc, and those of the processes it forked
InitprocTasks == {t \in Tasks : task_proc[t] = Some(INITPROC)}
UserTasks == {t \in Tasks : IsSome(task_proc[t]) /\ task_proc[t] # Some(INITPROC)}

NextLife ==
    \/ Dispatch
    \/ Tick
    \/ KernelTimerIrq
    \/ \E t \in Tasks : SysYield(t)
    \/ \E t \in Tasks : TimerPreempt(t)
    \/ \E t \in UserTasks : \E e \in ThreadEntries : \E a \in ThreadArgs : SysThreadCreate(t, e, a)
    \/ \E t \in UserTasks : \E c \in ExitCodes : SysExit(t, c)
    \/ \E t \in UserTasks : \E tid \in 0 .. NThreads : SysWaittid(t, tid)
    \/ \E t \in UserTasks : \E ms \in 0 .. MaxSleep : SysSleep(t, ms)
    \/ \E t \in Tasks : ResumeSleep(t)
    \/ \E t \in Tasks : ResumeTornDown(t)
    \/ \E t \in Tasks : SysMutexLock(t)
    \/ \E t \in Tasks : ResumeLock(t)
    \/ \E t \in Tasks : SysMutexUnlock(t)

SpecLife == InitLife /\ [][NextLife]_vars

\* ------------------------------------------------------- SpecJoin
\* the kernel right after add_initproc: INITPROC with its main thread is the
\* only process, no other TaskControlBlock exists yet
InitBoot ==
    /\ current = Some(1)
    /\ ready_queue = <<>>
    /\ task_status = [t \in Tasks |-> IF t = 1 THEN "Running" ELSE "Ready"]
    /\ kpc = [t \in Tasks |-> "user"]
    /\ InitSyncObjects
    /\ task_proc = [t \in Tasks |-> IF t = 1 THEN Some(INITPROC) ELSE None]
    /\ task_res = [t \in Tasks |-> IF t = 1 THEN Some(0) ELSE None]
    /\ task_exit_code = [t \in Tasks |-> None]
    /\ timers = {}
    /\ now_ms = 0
    /\ kernel_panic = FALSE
    /\ shutdown = FALSE
    /\ proc_state = [p \in Procs |-> IF p = INITPROC THEN "live" ELSE "unborn"]
    /\ proc_pid = [p \in Procs |-> IF p = INITPROC THEN Some(IDLE_PID) ELSE None]
    /\ parent = [p \in Procs |-> None]
    /\ children = [p \in Procs |-> <<>>]
    /\ is_zombie = [p \in Procs |-> FALSE]
    /\ exit_code = [p \in Procs |-> 0]
    /\ pid_allocator = [current |-> IDLE_PID + 1, recycled |-> <<>>]
    /\ pid2process = {<<IDLE_PID, INITPROC>>}
    /\ wstatus = [p \in Procs |-> None]
    /\ fd_table = [p \in Procs |-> IF p = INITPROC THEN StdFds ELSE <<>>]
    /\ user_image = [p \in Procs |-> IF p = INITPROC THEN BootImage ELSE NoImage]
    /\ input_dev = NoInput
    /\ tasks = [p \in Procs |-> IF p = INITPROC THEN <<Some(1)>> ELSE <<>>]
    /\ task_res_allocator =
          [p \in Procs |-> [current |-> IF p = INITPROC THEN 1 ELSE 0,
                            recycled |-> <<>>]]
    /\ trap_cx = [t \in Tasks |-> InitTrapCx]
    /\ InitSignals
    /\ InitMemory
    /\ last_call = NoCall

\* the threads of one process create, exit and join threads
NextJoin ==
    \/ Dispatch
    \/ \E t \in Tasks : SysYield(t)
    \/ \E t \in Tasks : \E e \in ThreadEntries : \E a \in ThreadArgs : SysThreadCreate(t, e, a)
    \/ \E t \in Tasks : \E c \in ExitCodes : SysExit(t, c)
    \/ \E t \in Tasks : \E tid \in 0 .. NThreads : SysWaittid(t, tid)

SpecJoin == InitBoot /\ [][NextJoin]_vars

\* ============================================ interrupts inside syscalls
\* trap_handler enables supervisor interrupts before it calls syscall()
\* (trap/mod.rs:119): between two interrupt-free sections of a syscall body
\* a timer interrupt is taken by trap_from_kernel. The positions of a thread
\* between such sections of sys_sleep and Condvar::wait_with_mutex:
IrqWindows == {"sleep_added", "wait_unlocked", "wait_enqueued", "thread_added"}

\* sys_sleep, first part (syscall/sync.rs:10-12): add_timer
SleepAddTimer(t, ms) ==
    /\ InUser(t)
    /\ timers' = timers \cup {[expire_ms |-> WrapUsize(now_ms + ms), task |-> t]}
    /\ kpc' = [kpc EXCEPT ![t] = "sleep_added"]
    /\ UNCHANGED <<ready_queue, current, task_status, syncVars, procVars, sigVars>>
    /\ UNCHANGED <<task_proc, task_res, task_exit_code, now_ms, kernel_panic, shutdown>>
    /\ last_call' = NoCall
    /\ UNCHANGED <<memVars, tableVars>>

\* sys_sleep, second part (syscall/sync.rs:13): block_current_and_run_next
SleepBlock(t) ==
    /\ InKernel(t, "sleep_added")
    /\ task_status' = [task_status EXCEPT ![t] = "Blocked"]
    /\ current' = None
    /\ kpc' = [kpc EXCEPT ![t] = "sleep_blocked"]
    /\ UNCHANGED <<ready_queue, syncVars, procVars, sigVars>>
    /\ UNCHANGED <<lifeVars, memVars, tableVars>>
    /\ last_call' = NoCall

\* Condvar::wait_with_mutex, first part (sync/condvar.rs:44): mutex.unlock()
CondvarWaitUnlock(t) ==
    /\ InUser(t)
    /\ OwnsSyncObjects(t)
    /\ holds[t]
    /\ LET r == MutexUnlockOutcome(mutex_locked, mutex_wait_queue)
       IN  /\ mutex_locked' = r.locked
           /\ mutex_wait_queue' = r.wq
           /\ task_status' = wakeup_opt_status(task_status, r.woken)
           /\ ready_queue' = wakeup_opt_queue(ready_queue, r.woken)
           /\ blocked_order' = NoteWoken(blocked_order, "mutex", r.woken)
    /\ holds' = [holds EXCEPT ![t] = FALSE]
    /\ kpc' = [kpc EXCEPT ![t] = "wait_unlocked"]
    /\ UNCHANGED <<current, sem_count, sem_free, sem_wait_queue, condvar_wait_queue>>
    /\ UNCHANGED <<lifeVars, procVars, sigVars, memVars, tableVars>>
    /\ last_call' = NoCall

\* Condvar::wait_with_mutex, second part (sync/condvar.rs:45-47): the caller
\* joins the wait queue
CondvarWaitEnqueue(t) ==
    /\ InKernel(t, "wait_unlocked")
    /\ condvar_wait_queue' = CondvarEnqueue(condvar_wait_queue, t)
    /\ blocked_order' = NoteBlocked("condvar", t)
    /\ kpc' = [kpc EXCEPT ![t] = "wait_enqueued"]
    /\ UNCHANGED <<ready_queue, current, task_status, holds, mutex_locked,
                   mutex_wait_queue, sem_count, sem_free, sem_wait_queue>>
    /\ UNCHANGED <<lifeVars, procVars, sigVars, memVars, tableVars>>
    /\ last_call' = NoCall

\* Condvar::wait_with_mutex, third part (sync/condvar.rs:48):
\* block_current_and_run_next; the woken caller goes on in ResumeWait
CondvarWaitBlock(t) ==
    /\ InKernel(t, "wait_enqueued")
    /\ task_status' = [task_status EXCEPT ![t] = "Blocked"]
    /\ current' = None
    /\ kpc' = [kpc EXCEPT ![t] = "wait_blocked"]
    /\ UNCHANGED <<ready_queue, syncVars, procVars, sigVars>>
    /\ UNCHANGED <<lifeVars, memVars, tableVars>>
    /\ last_call' = NoCall

\* trap_from_kernel, SupervisorTimer, taken while the thread t is inside a
\* syscall (trap/mod.rs:59-63): check_timer, and no task switch
SyscallTimerIrq(t) ==
    /\ KernelAlive
    /\ current = Some(t)
    /\ kpc[t] \in IrqWindows
    /\ \E q \in ExpiredOrders(timers, now_ms) :
          /\ timers' = AfterPops(timers, q)
          /\ task_status' = wakeup_all_status(task_status, TasksOf(q))
          /\ ready_queue' = wakeup_all_queue(ready_queue, TasksOf(q))
          /\ last_call' = CheckTimerCall(q)
    /\ UNCHANGED <<current, kpc, syncVars, procVars, sigVars>>
    /\ UNCHANGED <<task_proc, task_res, task_exit_code, now_ms, kernel_panic, shutdown>>
    /\ UNCHANGED <<memVars, tableVars>>

\* ------------------------------------------------------- SpecIrq
\* the threads of one process sleep and use the mutex, the semaphore and the
\* condvar, with timer interrupts in user mode, in the idle loop and inside
\* syscalls
NextIrq ==
    \/ Dispatch
    \/ Tick
    \/ KernelTimerIrq
    \/ \E t \in Tasks : SyscallTimerIrq(t)
    \/ \E t \in Tasks : TimerPreempt(t)
    \/ \E t \in Tasks : \E ms \in 0 .. MaxSleep : SleepAddTimer(t, ms)
    \/ \E t \in Tasks : SleepBlock(t)
    \/ \E t \in Tasks : ResumeSleep(t)
    \/ \E t \in Tasks : SysMutexLock(t)
    \/ \E t \in Tasks : ResumeLock(t)
    \/ \E t \in Tasks : SysMutexUnlock(t)
    \/ \E t \in Tasks : SysSemaphoreDown(t)
    \/ \E t \in Tasks : ResumeDown(t)
    \/ \E t \in Tasks : SysSemaphoreUp(t)
    \/ \E t \in Tasks : CondvarWaitUnlock(t)
    \/ \E t \in Tasks : CondvarWaitEnqueue(t)
    \/ \E t \in Tasks : CondvarWaitBlock(t)
    \/ \E t \in Tasks : ResumeWait(t)
    \/ \E t \in Tasks : SysCondvarSignal(t)

SpecIrq == InitSync /\ [][NextIrq]_vars

\* ------------------------------------------------------- SpecTimer
\* threads that sleep, for a few milliseconds or for a time whose expiry is
\* at or above 2^(UsizeBits-1), under clock ticks and sweeps of the timers
HugeMs == 2 ^ (UsizeBits - 1) + 1
SleepArgs == (0 .. MaxSleep) \cup {HugeMs}

NextTimer ==
    \/ Dispatch
    \/ Tick
    \/ KernelTimerIrqAs(TRUE)
    \/ \E t \in Tasks : SysYield(t)
    \/ \E t \in Tasks : TimerPreemptAs(t, TRUE)
    \/ \E t \in Tasks : \E ms \in SleepArgs : SysSleep(t, ms)
    \/ \E t \in Tasks : ResumeSleep(t)

SpecTimer == InitSync /\ [][NextTimer]_vars

\* ------------------------------------------------------- SpecKTrap
\* traps taken while a syscall body runs (trap_from_kernel) and external
\* interrupts taken in user mode
KernelCauses == {"SupervisorTimer", "SupervisorExternal", "StorePageFault"}
\* PLIC sources: 1 block device, 10 UART; 5 is a virtio slot irq_handler
\* does not route
IrqSources == {1, 5, 10}
RoutedIrqs == {1, 10}

\* a trap_from_kernel that reschedules after the sweep
TrapFromKernelSchedules(cause, src) ==
    [sweep |-> cause = "SupervisorTimer",
     panic |-> IF cause = "SupervisorExternal" THEN src \notin RoutedIrqs
               ELSE cause # "SupervisorTimer",
     schedule |-> cause = "SupervisorTimer"]

\* trap_from_kernel by cause: whether check_timer runs, whether the kernel
\* panics (unsupported cause, or irq_handler's unsupported IRQ), whether the
\* running task is suspended ("do not schedule now")
TrapFromKernelOutcome(cause, src) ==
    [sweep |-> cause = "SupervisorTimer",
     panic |-> IF cause = "SupervisorExternal" THEN src \notin RoutedIrqs
               ELSE cause # "SupervisorTimer",
     schedule |-> FALSE]

TrapFromKernel(t, cause, src) ==
    /\ KernelAlive
    /\ current = Some(t)
    /\ kpc[t] \in IrqWindows
    /\ LET r == TrapFromKernelOutcome(cause, src)
       IN  /\ \E q \in (IF r.sweep THEN ExpiredOrders(timers, now_ms) ELSE {<<>>}) :
                 /\ timers' = AfterPops(timers, q)
                 /\ IF r.schedule
                    THEN /\ task_status' = [wakeup_all_status(task_status, TasksOf(q))
                                              EXCEPT ![t] = "Ready"]
                         /\ ready_queue' =
                               add_task(wakeup_all_queue(ready_queue, TasksOf(q)), t)
                         /\ current' = None
                    ELSE /\ task_status' = wakeup_all_status(task_status, TasksOf(q))
                         /\ ready_queue' = wakeup_all_queue(ready_queue, TasksOf(q))
                         /\ current' = current
                 /\ last_call' = [call |-> "trap_from_kernel", task |-> t,
                                  cause |-> cause, src |-> src, popped |-> q]
           /\ kernel_panic' = r.panic
    /\ UNCHANGED <<kpc, syncVars, procVars, sigVars>>
    /\ UNCHANGED <<task_proc, task_res, task_exit_code, now_ms, shutdown>>
    /\ UNCHANGED <<memVars, tableVars>>

\* trap_handler, SupervisorExternal from user mode: irq_handler, then back
UserExternalIrq(t, src) ==
    /\ InUser(t)
    /\ kernel_panic' = (src \notin RoutedIrqs)
    /\ last_call' = [call |-> "irq_handler", task |-> t, src |-> src]
    /\ UNCHANGED <<schedVars, syncVars, procVars, sigVars>>
    /\ UNCHANGED <<task_proc, task_res, task_exit_code, timers, now_ms, shutdown>>
    /\ UNCHANGED <<memVars, tableVars>>

NextKTrap ==
    \/ Dispatch
    \/ Tick
    \/ KernelTimerIrq
    \/ \E t \in Tasks : TimerPreempt(t)
    \/ \E t \in Tasks : \E ms \in 0 .. MaxSleep : SleepAddTimer(t, ms)
    \/ \E t \in Tasks : SleepBlock(t)
    \/ \E t \in Tasks : ResumeSleep(t)
    \/ \E t \in Tasks : \E c \in KernelCauses : \E src \in IrqSources :
          TrapFromKernel(t, c, src)
    \/ \E t \in Tasks : \E src \in IrqSources : UserExternalIrq(t, src)

SpecKTrap == InitSync /\ [][NextKTrap]_vars

\* ================================================================ signals
\* the signal numbers the model names (SIGDEF = 0, then as in Linux)
SIG == [DEF |-> 0, INT |-> 2, ILL |-> 4, ABRT |-> 6, FPE |-> 8, KILL |-> 9,
        USR1 |-> 10, SEGV |-> 11, USR2 |-> 12, CONT |-> 18, STOP |-> 19]

\* the signals check_pending_signals hands to call_kernel_signal_handler
KernelSignals == {SIG.KILL, SIG.STOP, SIG.CONT, SIG.DEF}

\* SignalFlags ^= flag
Toggle(flags, s) == IF s \in flags THEN flags \ {s} ELSE flags \cup {s}

\* SignalFlags::bits
RECURSIVE Bits(_)
Bits(flags) ==
    IF flags = {} THEN 0
    ELSE LET s == CHOOSE x \in flags : TRUE IN 2 ^ s + Bits(flags \ {s})

\* SignalFlags::check_error: the errno of the first fatal signal pending
CheckError(recv) ==
    IF SIG.INT \in recv THEN Some(-2)
    ELSE IF SIG.ILL \in recv THEN Some(-4)
    ELSE IF SIG.ABRT \in recv THEN Some(-6)
    ELSE IF SIG.FPE \in recv THEN Some(-8)
    ELSE IF SIG.KILL \in recv THEN Some(-9)
    ELSE IF SIG.SEGV \in recv THEN Some(-11)
    ELSE None

\* a check that lets every signal through while a handler is in flight
MaskedNever(handling, actions, sig) == FALSE

\* check_pending_signals, the flag masked (task/mod.rs:167-180): a signal is
\* held back when the action of the signal being handled masks it
Masked(handling, actions, sig) ==
    IF handling = -1 THEN FALSE ELSE sig \in actions[handling].mask

\* a kernel handler that clears the bit of every signal it handles
CallKernelSignalHandlerClearsAll(st, sig) ==
    LET d == [st EXCEPT !.delivered = @ \cup {sig}, !.recv = Toggle(@, sig)]
    IN  IF sig = SIG.STOP THEN [d EXCEPT !.frozen = TRUE]
        ELSE IF sig = SIG.CONT THEN [d EXCEPT !.frozen = FALSE]
        ELSE [d EXCEPT !.killed = TRUE]

\* call_kernel_signal_handler; st is the signal state of the process
CallKernelSignalHandler(st, sig) ==
    LET d == [st EXCEPT !.delivered = @ \cup {sig}]
    IN  IF sig = SIG.STOP
        THEN [d EXCEPT !.frozen = TRUE, !.recv = Toggle(@, sig)]
        ELSE IF sig = SIG.CONT
        THEN [d EXCEPT !.frozen = FALSE, !.recv = Toggle(@, sig)]
        ELSE [d EXCEPT !.killed = TRUE]

\* a handler call whose default action consumes the signal
CallUserSignalHandlerConsumes(st, sig, actions) ==
    [st EXCEPT !.delivered = @ \cup {sig}, !.recv = Toggle(@, sig)]

\* call_user_signal_handler: with a handler installed, save the trap context
\* of thread 0 and redirect it to the handler
CallUserSignalHandler(st, sig, actions) ==
    LET d == [st EXCEPT !.delivered = @ \cup {sig}]
    IN  IF actions[sig].handler # 0
        THEN [d EXCEPT !.handling_sig = sig,
                       !.recv = Toggle(@, sig),
                       !.backup = Some(st.cx),
                       !.cx = [st.cx EXCEPT !.sepc = actions[sig].handler, !.x10 = sig],
                       !.entered = TRUE]
        ELSE d

\* check_pending_signals: the loop over the signals from sig to MAX_SIG
RECURSIVE CheckPendingFrom(_, _, _, _)
CheckPendingFrom(sig, st, mask, actions) ==
    IF sig > MAX_SIG THEN st
    ELSE IF sig \in st.recv /\ sig \notin mask /\ ~Masked(st.handling_sig, actions, sig)
    THEN IF sig \in KernelSignals
         THEN CheckPendingFrom(sig + 1, CallKernelSignalHandler(st, sig), mask, actions)
         ELSE CallUserSignalHandler(st, sig, actions)
    ELSE CheckPendingFrom(sig + 1, st, mask, actions)

\* the signal state of process p as check_pending_signals finds it
SignalState(p) ==
    [recv |-> signal_recv[p], frozen |-> frozen[p], killed |-> killed[p],
     handling_sig |-> handling_sig[p], backup |-> trap_ctx_backup[p],
     cx |-> trap_cx[Unwrap(tasks[p][1])], delivered |-> {}, entered |-> FALSE]

CheckPendingSignals(p) ==
    CheckPendingFrom(0, SignalState(p), signal_mask[p], signal_actions[p])

\* ============================================================== trap path
\* the user addresses at which programs execute ecall: every syscall of the
\* user library goes through the one ecall instruction of its syscall function
UserPcs == {8}

\* __alltraps saved the user registers of an ecall at pc with arguments a0 and
\* a2; trap_handler (trap/mod.rs:116-117) then advances sepc past the ecall
TrapEnter(a0, a2, pc) == [x10 |-> a0, x12 |-> a2, sepc |-> pc + 4]

\* trap_handler after the syscall returned (trap/mod.rs:124-125): the result
\* goes to x[12] of the trap context read again
StoreResult(cx, result) == [cx EXCEPT !.x12 = result]

\* the tail of trap_handler (trap/mod.rs:155-161): handle_signals, exit on a
\* fatal signal, else trap_return to user mode.  A frozen process that is not
\* killed yields inside handle_signals and comes back to this point.
HandleSignals(t) ==
    /\ InKernel(t, "signals")
    /\ LET p == ProcOf(t)
           r == CheckPendingSignals(p)
           err == CheckError(r.recv)
       IN  /\ signal_recv' = [signal_recv EXCEPT ![p] = r.recv]
           /\ frozen' = [frozen EXCEPT ![p] = r.frozen]
           /\ killed' = [killed EXCEPT ![p] = r.killed]
           /\ handling_sig' = [handling_sig EXCEPT ![p] = r.handling_sig]
           /\ trap_ctx_backup' = [trap_ctx_backup EXCEPT ![p] = r.backup]
           /\ trap_cx' = [trap_cx EXCEPT ![Unwrap(tasks[p][1])] = r.cx]
           /\ last_call' = [call |-> "handle_signals", task |-> t,
                            delivered |-> r.delivered, entered |-> r.entered]
           /\ IF r.frozen /\ ~r.killed
              THEN \* wait for SIGCONT: suspend_current_and_run_next
                   /\ SuspendCurrent(t)
                   /\ UNCHANGED <<kpc, task_exit_code, shutdown, task_res,
                                  task_res_allocator, timers, pid2process, is_zombie,
                                  exit_code, children, parent, tasks, fd_table,
                               user_image, input_dev>>
              ELSE IF IsSome(err)
              THEN /\ ExitCurrentAndRunNext(t, Unwrap(err))
                   /\ UNCHANGED task_status
              ELSE /\ kpc' = [kpc EXCEPT ![t] = "user"]
                   /\ UNCHANGED <<ready_queue, current, task_status, task_exit_code,
                                  shutdown, task_res, task_res_allocator, timers,
                                  pid2process, is_zombie, exit_code, children, parent,
                                  tasks, fd_table,
                               user_image, input_dev>>
    /\ UNCHANGED <<syncVars, signal_mask, signal_actions>>
    /\ UNCHANGED <<task_proc, now_ms, kernel_panic>>
    /\ UNCHANGED <<proc_state, proc_pid, pid_allocator, wstatus>>
    /\ UNCHANGED <<memVars, listVars>>

\* UserEnvCall, sys_yield: suspend_current_and_run_next inside the syscall
EcallYield(t, pc) ==
    /\ InUser(t)
    /\ trap_cx' = [trap_cx EXCEPT ![t] = TrapEnter(0, 0, pc)]
    /\ SuspendCurrent(t)
    /\ kpc' = [kpc EXCEPT ![t] = "yield_suspended"]
    /\ UNCHANGED <<syncVars, lifeVars, sigVars>>
    /\ UNCHANGED <<proc_state, proc_pid, parent, children, is_zombie, exit_code, tasks,
                   task_res_allocator, pid_allocator, pid2process, wstatus>>
    /\ last_call' = NoCall
    /\ UNCHANGED <<memVars, tableVars>>

\* the yielding task runs again: sys_yield returns 0 to trap_handler
ResumeYield(t) ==
    /\ InKernel(t, "yield_suspended")
    /\ trap_cx' = [trap_cx EXCEPT ![t] = StoreResult(@, 0)]
    /\ kpc' = [kpc EXCEPT ![t] = "signals"]
    /\ UNCHANGED <<ready_queue, current, task_status, syncVars, lifeVars, sigVars>>
    /\ UNCHANGED <<proc_state, proc_pid, parent, children, is_zombie, exit_code, tasks,
                   task_res_allocator, pid_allocator, pid2process, wstatus>>
    /\ last_call' = NoCall
    /\ UNCHANGED <<memVars, tableVars>>

\* UserEnvCall, sys_exit
EcallExit(t, code, pc) ==
    /\ InUser(t)
    /\ trap_cx' = [trap_cx EXCEPT ![t] = TrapEnter(code, 0, pc)]
    /\ ExitCurrentAndRunNext(t, code)
    /\ UNCHANGED <<task_status, syncVars, sigVars>>
    /\ UNCHANGED <<task_proc, now_ms, kernel_panic>>
    /\ UNCHANGED <<proc_state, proc_pid, pid_allocator, wstatus>>
    /\ last_call' = [call |-> "exit", task |-> t, arg |-> code]
    /\ UNCHANGED <<memVars, listVars>>

\* ======================================================= fork and waitpid
\* the smallest ProcessControlBlock identity not in use
FreshProc == CHOOSE q \in Procs : proc_state[q] = "unborn" /\ \A r \in Procs : proc_state[r] = "unborn" => q <= r

\* sys_fork (syscall/process.rs:33-36): the child's copy of the parent's trap
\* context gets a0 = 0
ForkChildCx(cx) == [cx EXCEPT !.x10 = 0]

\* UserEnvCall, sys_fork: ProcessControlBlock::fork, then the child's a0
EcallFork(t, pc) ==
    /\ InUser(t)
    /\ \E q \in Procs : proc_state[q] = "unborn"
    /\ \E n \in Tasks : task_proc[n] = None
    /\ LET p == ProcOf(t)
           q == FreshProc
           n == FreshTask
           a == RecycleAlloc(pid_allocator)
           cx == TrapEnter(0, 0, pc)
       IN  IF Len(tasks[p]) # 1
           THEN \* assert_eq!(parent.thread_count(), 1)
                /\ kernel_panic' = TRUE
                /\ trap_cx' = [trap_cx EXCEPT ![t] = cx]
                /\ last_call' = NoCall
                /\ UNCHANGED <<schedVars, syncVars, sigVars>>
                /\ UNCHANGED <<task_proc, task_res, task_exit_code, timers, now_ms,
                               shutdown>>
                /\ UNCHANGED <<proc_state, proc_pid, parent, children, is_zombie,
                               exit_code, tasks, task_res_allocator, pid_allocator,
                               pid2process, wstatus, tableVars>>
           ELSE /\ pid_allocator' = a.next
                /\ proc_state' = [proc_state EXCEPT ![q] = "live"]
                /\ proc_pid' = [proc_pid EXCEPT ![q] = Some(a.id)]
                /\ parent' = [parent EXCEPT ![q] = Some(p)]
                /\ children' = [children EXCEPT ![p] = Append(@, q), ![q] = <<>>]
                /\ is_zombie' = [is_zombie EXCEPT ![q] = FALSE]
                /\ exit_code' = [exit_code EXCEPT ![q] = 0]
                /\ signal_mask' = [signal_mask EXCEPT ![q] = signal_mask[p]]
                /\ signal_recv' = [signal_recv EXCEPT ![q] = {}]
                /\ signal_actions' = [signal_actions EXCEPT ![q] = signal_actions[p]]
                /\ frozen' = [frozen EXCEPT ![q] = FALSE]
                /\ killed' = [killed EXCEPT ![q] = FALSE]
                /\ handling_sig' = [handling_sig EXCEPT ![q] = -1]
                /\ trap_ctx_backup' = [trap_ctx_backup EXCEPT ![q] = None]
                /\ task_res_allocator' =
                      [task_res_allocator EXCEPT ![q] = [current |-> 1, recycled |-> <<>>]]
                /\ tasks' = [tasks EXCEPT ![q] = <<Some(n)>>]
                /\ fd_table' = [fd_table EXCEPT ![q] = fd_table[p]]
                /\ user_image' = [user_image EXCEPT ![q] = user_image[p]]
                /\ UNCHANGED input_dev
                /\ mutex_list' = [mutex_list EXCEPT ![q] = <<>>]
                /\ semaphore_list' = [semaphore_list EXCEPT ![q] = <<>>]
                /\ condvar_list' = [condvar_list EXCEPT ![q] = <<>>]
                /\ task_proc' = [task_proc EXCEPT ![n] = Some(q)]
                /\ task_res' = [task_res EXCEPT ![n] = Some(0)]
                /\ task_exit_code' = [task_exit_code EXCEPT ![n] = None]
                /\ task_status' = [task_status EXCEPT ![n] = "Ready"]
                /\ pid2process' = pid2process \cup {<<a.id, q>>}
                /\ ready_queue' = add_task(ready_queue, n)
                /\ trap_cx' = [trap_cx EXCEPT ![n] = ForkChildCx(cx),
                                              ![t] = StoreResult(cx, a.id)]
                /\ kpc' = [kpc EXCEPT ![t] = "signals", ![n] = "user"]
                /\ last_call' = [call |-> "fork", task |-> t, ret |-> a.id, pc |-> pc,
                                 child |-> n]
                /\ UNCHANGED <<current, syncVars, timers, now_ms, kernel_panic, shutdown,
                               wstatus>>
    /\ UNCHANGED memVars

\* sys_waitpid that reaps the first zombie child, whatever its pid
WaitpidFirstZombie(kids, zombie, pids, codes, pid) ==
    LET Matches(c) == pid = -1 \/ pid = Unwrap(pids[c])
        found == {i \in 1 .. Len(kids) : zombie[kids[i]]}
        idx == CHOOSE i \in found : \A j \in found : i <= j
        none == [ret |-> -1, children |-> kids, reaped |-> None, status |-> None]
    IN  IF ~\E i \in 1 .. Len(kids) : Matches(kids[i]) THEN none
        ELSE IF found # {}
        THEN [ret |-> Unwrap(pids[kids[idx]]),
              children |-> SubSeq(kids, 1, idx - 1) \o SubSeq(kids, idx + 1, Len(kids)),
              reaped |-> Some(kids[idx]), status |-> Some(codes[kids[idx]])]
        ELSE [none EXCEPT !.ret = -2]

\* sys_waitpid(pid, exit_code_ptr) over the children kids of the caller: the
\* result, the new children, the child dropped and the i32 written
WaitpidOutcome(kids, zombie, pids, codes, pid) ==
    LET Matches(c) == pid = -1 \/ pid = Unwrap(pids[c])
        found == {i \in 1 .. Len(kids) : zombie[kids[i]] /\ Matches(kids[i])}
        idx == CHOOSE i \in found : \A j \in found : i <= j
        none == [ret |-> -1, children |-> kids, reaped |-> None, status |-> None]
    IN  IF ~\E i \in 1 .. Len(kids) : Matches(kids[i]) THEN none
        ELSE IF found # {}
        THEN [ret |-> Unwrap(pids[kids[idx]]),
              children |-> SubSeq(kids, 1, idx - 1) \o SubSeq(kids, idx + 1, Len(kids)),
              reaped |-> Some(kids[idx]), status |-> Some(codes[kids[idx]])]
        ELSE [none EXCEPT !.ret = -2]

\* the ProcessControlBlock identities o dropped: the fields of a dropped one
\* read as those of one not created yet
DropProcs(f, o, blank) == [q \in DOMAIN f |-> IF Some(q) = o THEN blank ELSE f[q]]

\* the leader TaskControlBlock that goes with a dropped ProcessControlBlock
DropTasks(f, o, blank) ==
    [n \in DOMAIN f |-> IF IsSome(o) /\ task_proc[n] = o THEN blank ELSE f[n]]

\* UserEnvCall, sys_waitpid; dropping the reaped child releases its pid
EcallWaitpid(t, pid, ptr, pc) ==
    /\ InUser(t)
    /\ LET p == ProcOf(t)
           r == WaitpidOutcome(children[p], is_zombie, proc_pid, exit_code, pid)
           cx == TrapEnter(pid, 0, pc)
       IN  /\ children' = [children EXCEPT ![p] = r.children]
           /\ wstatus' = [wstatus EXCEPT ![p] = IF IsSome(r.status) THEN r.status ELSE @]
           /\ pid_allocator' = IF IsSome(r.reaped)
                               THEN RecycleDeallocAll(pid_allocator, <<r.ret>>)
                               ELSE pid_allocator
           /\ proc_state' = DropProcs(proc_state, r.reaped, "unborn")
           /\ proc_pid' = DropProcs(proc_pid, r.reaped, None)
           /\ parent' = DropProcs(parent, r.reaped, None)
           /\ is_zombie' = DropProcs(is_zombie, r.reaped, FALSE)
           /\ exit_code' = DropProcs(exit_code, r.reaped, 0)
           /\ tasks' = DropProcs(tasks, r.reaped, <<>>)
           /\ fd_table' = DropProcs(fd_table, r.reaped, <<>>)
           /\ user_image' = DropProcs(user_image, r.reaped, NoImage)
           /\ UNCHANGED input_dev
           /\ mutex_list' = DropProcs(mutex_list, r.reaped, <<>>)
           /\ semaphore_list' = DropProcs(semaphore_list, r.reaped, <<>>)
           /\ condvar_list' = DropProcs(condvar_list, r.reaped, <<>>)
           /\ task_res_allocator' =
                 DropProcs(task_res_allocator, r.reaped, [current |-> 0, recycled |-> <<>>])
           /\ signal_mask' = DropProcs(signal_mask, r.reaped, {})
           /\ signal_recv' = DropProcs(signal_recv, r.reaped, {})
           /\ signal_actions' = DropProcs(signal_actions, r.reaped, DefaultActions)
           /\ killed' = DropProcs(killed, r.reaped, FALSE)
           /\ frozen' = DropProcs(frozen, r.reaped, FALSE)
           /\ handling_sig' = DropProcs(handling_sig, r.reaped, -1)
           /\ trap_ctx_backup' = DropProcs(trap_ctx_backup, r.reaped, None)
           /\ task_proc' = DropTasks(task_proc, r.reaped, None)
           /\ task_exit_code' = DropTasks(task_exit_code, r.reaped, None)
           /\ task_status' = DropTasks(task_status, r.reaped, "Ready")
           /\ kpc' = [DropTasks(kpc, r.reaped, "user") EXCEPT ![t] = "signals"]
           /\ trap_cx' = [DropTasks(trap_cx, r.reaped, InitTrapCx)
                            EXCEPT ![t] = StoreResult(cx, r.ret)]
           /\ last_call' = [call |-> "waitpid", task |-> t, arg |-> pid, ret |-> r.ret,
                            pc |-> pc]
    /\ UNCHANGED <<ready_queue, current, syncVars>>
    /\ UNCHANGED <<task_res, timers, now_ms, kernel_panic, shutdown, pid2process>>
    /\ UNCHANGED memVars

\* ------------------------------------------------------- SpecProc
\* the pids user programs pass to waitpid, and where they want the status
WaitPids == -1 .. NProcs - 1
StatusPtrs == {64}

NextProc ==
    \/ Dispatch
    \/ \E t \in Tasks : \E pc \in UserPcs : EcallYield(t, pc)
    \/ \E t \in Tasks : ResumeYield(t)
    \/ \E t \in Tasks : HandleSignals(t)
    \/ \E t \in Tasks : \E pc \in UserPcs : EcallFork(t, pc)
    \/ \E t \in Tasks : \E c \in ExitCodes : \E pc \in UserPcs : EcallExit(t, c, pc)
    \* initproc is the process that waits for children
    \/ \E t \in InitprocTasks : \E pid \in WaitPids : \E ptr \in StatusPtrs : \E pc \in UserPcs :
          EcallWaitpid(t, pid, ptr, pc)

\* initproc runs and its first child is ready, as in InitLife
SpecProc == InitLife /\ [][NextProc]_vars

\* ------------------------------------------------------- SpecOrphan
\* initproc has forked the first child and from then on only waits for
\* children; the other processes fork, exit and wait
NextOrphan ==
    \/ Dispatch
    \/ \E t \in Tasks : \E pc \in UserPcs : EcallYield(t, pc)
    \/ \E t \in Tasks : ResumeYield(t)
    \/ \E t \in Tasks : HandleSignals(t)
    \/ \E t \in UserTasks : \E pc \in UserPcs : EcallFork(t, pc)
    \/ \E t \in UserTasks : \E c \in ExitCodes : \E pc \in UserPcs : EcallExit(t, c, pc)
    \/ \E t \in Tasks : \E pid \in WaitPids : \E ptr \in StatusPtrs : \E pc \in UserPcs :
          EcallWaitpid(t, pid, ptr, pc)

SpecOrphan == InitLife /\ [][NextOrphan]_vars

\* ======================================================= signal syscalls
\* UserEnvCall, sys_kill(pid, signum): post the signal unless it is pending
EcallKill(t, pid, signum, pc) ==
    /\ InUser(t)
    /\ LET target == {q \in Procs : <<pid, q>> \in pid2process}
           ret == IF target = {} THEN -1
                  ELSE IF \E q \in target : signum \in signal_recv[q] THEN -1
                  ELSE 0
       IN  /\ signal_recv' = [q \in Procs |-> IF q \in target /\ ret = 0
                                              THEN signal_recv[q] \cup {signum}
                                              ELSE signal_recv[q]]
           /\ trap_cx' = [trap_cx EXCEPT ![t] =
                             StoreResult(TrapEnter(pid, 0, pc), ret)]
           /\ last_call' = NoCall
    /\ kpc' = [kpc EXCEPT ![t] = "signals"]
    /\ UNCHANGED <<ready_queue, current, task_status, syncVars, lifeVars>>
    /\ UNCHANGED <<signal_mask, signal_actions, killed, frozen, handling_sig,
                   trap_ctx_backup>>
    /\ UNCHANGED <<proc_state, proc_pid, parent, children, is_zombie, exit_code, tasks,
                   task_res_allocator, pid_allocator, pid2process, wstatus>>
    /\ UNCHANGED <<memVars, tableVars>>

\* check_sigaction_error, after the range check of signum
SigactionError(signum, action_ptr, old_action_ptr) ==
    \/ signum > MAX_SIG
    \/ action_ptr = 0
    \/ old_action_ptr = 0
    \/ signum = SIG.KILL
    \/ signum = SIG.STOP

\* UserEnvCall, sys_sigaction(signum, action, old_action); action is the
\* SignalAction the user stored at action_ptr
EcallSigaction(t, signum, action_ptr, action, old_action_ptr, pc) ==
    /\ InUser(t)
    /\ LET p == ProcOf(t)
           ret == IF SigactionError(signum, action_ptr, old_action_ptr) THEN -1 ELSE 0
       IN  /\ signal_actions' = IF ret = 0
                                THEN [signal_actions EXCEPT ![p][signum] = action]
                                ELSE signal_actions
           /\ trap_cx' = [trap_cx EXCEPT ![t] =
                             StoreResult(TrapEnter(signum, old_action_ptr, pc), ret)]
           /\ last_call' = NoCall
    /\ kpc' = [kpc EXCEPT ![t] = "signals"]
    /\ UNCHANGED <<ready_queue, current, task_status, syncVars, lifeVars>>
    /\ UNCHANGED <<signal_mask, signal_recv, killed, frozen, handling_sig,
                   trap_ctx_backup>>
    /\ UNCHANGED <<proc_state, proc_pid, parent, children, is_zombie, exit_code, tasks,
                   task_res_allocator, pid_allocator, pid2process, wstatus>>
    /\ UNCHANGED <<memVars, tableVars>>

\* UserEnvCall, sys_sigprocmask(mask): set the mask, return the old one
EcallSigprocmask(t, mask, pc) ==
    /\ InUser(t)
    /\ LET p == ProcOf(t)
           ret == Bits(signal_mask[p])
       IN  /\ signal_mask' = [signal_mask EXCEPT ![p] = mask]
           /\ trap_cx' = [trap_cx EXCEPT ![t] =
                             StoreResult(TrapEnter(Bits(mask), 0, pc), ret)]
           /\ last_call' = NoCall
    /\ kpc' = [kpc EXCEPT ![t] = "signals"]
    /\ UNCHANGED <<ready_queue, current, task_status, syncVars, lifeVars>>
    /\ UNCHANGED <<signal_recv, signal_actions, killed, frozen, handling_sig,
                   trap_ctx_backup>>
    /\ UNCHANGED <<proc_state, proc_pid, parent, children, is_zombie, exit_code, tasks,
                   task_res_allocator, pid_allocator, pid2process, wstatus>>
    /\ UNCHANGED <<memVars, tableVars>>

\* UserEnvCall, sys_sigreturn: handling_sig = -1, the trap context of thread 0
\* is overwritten with trap_ctx_backup.unwrap(); trap_handler then stores the
\* result 0 in the caller's trap context
EcallSigreturn(t, pc) ==
    /\ InUser(t)
    /\ LET p == ProcOf(t)
           leader == Unwrap(tasks[p][1])
           entered == [trap_cx EXCEPT ![t] = TrapEnter(0, 0, pc)]
       IN  /\ handling_sig' = [handling_sig EXCEPT ![p] = -1]
           /\ IF trap_ctx_backup[p] = None
              THEN \* unwrap of None
                   /\ kernel_panic' = TRUE
                   /\ trap_cx' = entered
                   /\ UNCHANGED kpc
              ELSE LET restored == [entered EXCEPT ![leader] = Unwrap(trap_ctx_backup[p])]
                   IN  /\ trap_cx' = [restored EXCEPT ![t] = StoreResult(@, 0)]
                       /\ kpc' = [kpc EXCEPT ![t] = "signals"]
                       /\ UNCHANGED kernel_panic
           /\ last_call' = [call |-> "sigreturn", task |-> t, pc |-> pc,
                            panics |-> trap_ctx_backup[p] = None]
    /\ UNCHANGED <<ready_queue, current, task_status, syncVars>>
    /\ UNCHANGED <<task_proc, task_res, task_exit_code, timers, now_ms, shutdown>>
    /\ UNCHANGED <<signal_mask, signal_recv, signal_actions, killed, frozen,
                   trap_ctx_backup>>
    /\ UNCHANGED <<proc_state, proc_pid, parent, children, is_zombie, exit_code, tasks,
                   task_res_allocator, pid_allocator, pid2process, wstatus>>
    /\ UNCHANGED <<memVars, tableVars>>

\* trap_handler, a memory fault in user mode (trap/mod.rs:127-134):
\* current_add_signal(SIGSEGV)
TrapPageFault(t) ==
    /\ InUser(t)
    /\ signal_recv' = [signal_recv EXCEPT ![ProcOf(t)] = @ \cup {SIG.SEGV}]
    /\ kpc' = [kpc EXCEPT ![t] = "signals"]
    /\ UNCHANGED <<ready_queue, current, task_status, syncVars, lifeVars, procVars>>
    /\ UNCHANGED <<signal_mask, signal_actions, killed, frozen, handling_sig,
                   trap_ctx_backup>>
    /\ last_call' = [call |-> "fault", task |-> t, signal |-> SIG.SEGV]
    /\ UNCHANGED <<memVars, tableVars>>

\* trap_handler, an illegal instruction in user mode (trap/mod.rs:135-137):
\* current_add_signal(SIGILL)
TrapIllegalInstruction(t) ==
    /\ InUser(t)
    /\ signal_recv' = [signal_recv EXCEPT ![ProcOf(t)] = @ \cup {SIG.ILL}]
    /\ kpc' = [kpc EXCEPT ![t] = "signals"]
    /\ UNCHANGED <<ready_queue, current, task_status, syncVars, lifeVars, procVars>>
    /\ UNCHANGED <<signal_mask, signal_actions, killed, frozen, handling_sig,
                   trap_ctx_backup>>
    /\ last_call' = [call |-> "fault", task |-> t, signal |-> SIG.ILL]
    /\ UNCHANGED <<memVars, tableVars>>

\* ------------------------------------------------------- SpecSig
\* the arguments user programs pass to the signal syscalls
KillPids == {IDLE_PID + 1}
KillSignals == {SIG.KILL, SIG.USR1, SIG.USR2, SIG.CONT, SIG.STOP}
SigactionArgs ==
    {[signum |-> SIG.USR1, action_ptr |-> 80, old_action_ptr |-> 72,
      action |-> [handler |-> 16, mask |-> {}]],
     [signum |-> SIG.USR1, action_ptr |-> 80, old_action_ptr |-> 72,
      action |-> [handler |-> 16, mask |-> {SIG.USR2, SIG.STOP}]],
     [signum |-> SIG.KILL, action_ptr |-> 80, old_action_ptr |-> 72,
      action |-> [handler |-> 16, mask |-> {}]],
     [signum |-> SIG.USR1, action_ptr |-> 0, old_action_ptr |-> 72,
      action |-> [handler |-> 0, mask |-> {}]]}
ProcMasks == {{}, {SIG.USR1}}

NextSig ==
    \/ Dispatch
    \/ \E t \in Tasks : \E pc \in UserPcs : EcallYield(t, pc)
    \/ \E t \in Tasks : ResumeYield(t)
    \/ \E t \in Tasks : HandleSignals(t)
    \* initproc sends the signals, the process it forked receives them
    \/ \E t \in InitprocTasks : \E pid \in KillPids : \E sig \in KillSignals :
          \E pc \in UserPcs : EcallKill(t, pid, sig, pc)
    \/ \E t \in UserTasks : \E a \in SigactionArgs : \E pc \in UserPcs :
          EcallSigaction(t, a.signum, a.action_ptr, a.action, a.old_action_ptr, pc)
    \/ \E t \in UserTasks : \E m \in ProcMasks : \E pc \in UserPcs : EcallSigprocmask(t, m, pc)
    \/ \E t \in UserTasks : \E pc \in UserPcs : EcallSigreturn(t, pc)
    \/ \E t \in UserTasks : TrapPageFault(t)

\* initproc runs and its first child is ready, as in InitLife
SpecSig == InitLife /\ [][NextSig]_vars

\* ------------------------------------------------------- SpecSigret
\* the user program traps from two places, so that a context saved at one
\* is told from a context saved at the other
SigretPcs == {8, 24}

NextSigret ==
    \/ Dispatch
    \/ \E t \in Tasks : \E pc \in SigretPcs : EcallYield(t, pc)
    \/ \E t \in Tasks : ResumeYield(t)
    \/ \E t \in Tasks : HandleSignals(t)
    \/ \E t \in InitprocTasks : \E pid \in KillPids : \E sig \in KillSignals :
          \E pc \in UserPcs : EcallKill(t, pid, sig, pc)
    \/ \E t \in UserTasks : \E a \in SigactionArgs : \E pc \in UserPcs :
          EcallSigaction(t, a.signum, a.action_ptr, a.action, a.old_action_ptr, pc)
    \/ \E t \in UserTasks : \E pc \in SigretPcs : EcallSigreturn(t, pc)

SpecSigret == InitLife /\ [][NextSigret]_vars

\* ------------------------------------------------------- SpecFault
\* the signals initproc sends while its child runs into faults, and the one
\* handler the child may install
FaultKillSignals == {SIG.INT, SIG.STOP}
FaultSigactionArgs ==
    {[signum |-> SIG.SEGV, action_ptr |-> 80, old_action_ptr |-> 72,
      action |-> [handler |-> 16, mask |-> {}]]}

NextFault ==
    \/ Dispatch
    \/ \E t \in Tasks : \E pc \in UserPcs : EcallYield(t, pc)
    \/ \E t \in Tasks : ResumeYield(t)
    \/ \E t \in Tasks : HandleSignals(t)
    \/ \E t \in UserTasks : \E e \in ThreadEntries : \E a \in ThreadArgs : SysThreadCreate(t, e, a)
    \/ \E t \in UserTasks : TrapPageFault(t)
    \/ \E t \in UserTasks : TrapIllegalInstruction(t)
    \/ \E t \in InitprocTasks : \E pid \in KillPids : \E sig \in FaultKillSignals :
          \E pc \in UserPcs : EcallKill(t, pid, sig, pc)
    \/ \E t \in UserTasks : \E a \in FaultSigactionArgs : \E pc \in UserPcs :
          EcallSigaction(t, a.signum, a.action_ptr, a.action, a.old_action_ptr, pc)
    \/ \E t \in InitprocTasks : \E pid \in WaitPids : \E ptr \in StatusPtrs : \E pc \in UserPcs :
          EcallWaitpid(t, pid, ptr, pc)

\* initproc runs and its first child is ready, as in InitLife
SpecFault == InitLife /\ [][NextFault]_vars

\* ------------------------------------------------------- SpecKilled
\* the signals initproc sends: those call_kernel_signal_handler handles
KilledSignals == {SIG.DEF, SIG.KILL, SIG.STOP, SIG.CONT}

NextKilled ==
    \/ Dispatch
    \/ \E t \in Tasks : \E pc \in UserPcs : EcallYield(t, pc)
    \/ \E t \in Tasks : ResumeYield(t)
    \/ \E t \in Tasks : HandleSignals(t)
    \/ \E t \in InitprocTasks : \E pid \in KillPids : \E sig \in KilledSignals :
          \E pc \in UserPcs : EcallKill(t, pid, sig, pc)
    \/ \E t \in UserTasks : \E m \in ProcMasks : \E pc \in UserPcs : EcallSigprocmask(t, m, pc)
    \/ \E t \in InitprocTasks : \E pid \in WaitPids : \E ptr \in StatusPtrs :
          \E pc \in UserPcs : EcallWaitpid(t, pid, ptr, pc)

SpecKilled == InitLife /\ [][NextKilled]_vars

\* ------------------------------------------------------- exec
PAGE_SIZE == 4096
USER_STACK_SIZE == 8192
\* core::mem::size_of::<usize>()
USIZE_BYTES == 8

\* most arguments of an exec call and most bytes of an argument
MaxArgs == 2
MaxArgLen == 2
\* bytes of argument strings: an ASCII letter and a byte above 0x7f
ArgBytes == {65, 233}
ArgStrings == UNION {[1 .. k -> ArgBytes] : k \in 0 .. MaxArgLen}
ExecArgs == UNION {[1 .. k -> ArgStrings] : k \in 0 .. MaxArgs}

\* the files open_file finds, and the paths user programs pass to exec
ElfFiles == {"user_shell"}
ExecPaths == {"user_shell", "nosuchfile"}
\* what from_elf returns for the file: its entry point and the page after the
\* last segment, above which lies a guard page and then the user stack
ElfEntry == 16 * PAGE_SIZE
ElfMaxEndVa == 18 * PAGE_SIZE
\* ustack_top() of thread 0: user_stack_base + USER_STACK_SIZE
UstackTop == ElfMaxEndVa + PAGE_SIZE + USER_STACK_SIZE

\* translated_str: each byte up to the NUL is pushed as a char (ch as char),
\* the String holds the code points of the bytes
TranslatedStr(bytes) == bytes

\* a translated_str that keeps the bytes as they are
AsBytesRaw(str) == str

\* String::as_bytes / len: the UTF-8 encoding of the chars; a code point
\* from 0x80 to 0xff takes two bytes
RECURSIVE AsBytes(_)
AsBytes(str) ==
    IF str = <<>> THEN <<>>
    ELSE (IF str[1] < 128 THEN <<str[1]>>
          ELSE <<192 + (str[1] \div 64), 128 + (str[1] % 64)>>) \o AsBytes(Tail(str))

\* ProcessControlBlock::exec, pushing the arguments: user_sp after the string
\* of argument i was pushed (args[0] first, below argv_base)
RECURSIVE ExecStrAddr(_, _, _)
ExecStrAddr(args, top, i) ==
    IF i = 0 THEN top - (Len(args) + 1) * USIZE_BYTES
    ELSE ExecStrAddr(args, top, i - 1) - (Len(AsBytes(args[i])) + 1)

\* byte k of a usize, little endian; the addresses of the model are below
\* 2^31, so the upper four bytes are zero
UsizeByte(v, k) == IF k > 3 THEN 0 ELSE (v \div (256 ^ k)) % 256

\* the bytes exec writes on the new user stack: the argv array at argv_base,
\* ended by a null word, and below it each string followed by a NUL
ExecMem(args, top) ==
    LET n == Len(args)
        argv_base == top - (n + 1) * USIZE_BYTES
        low == ExecStrAddr(args, top, n)
    IN  [a \in low .. top - 1 |->
           IF a >= argv_base
           THEN LET k == (a - argv_base) \div USIZE_BYTES
                IN  UsizeByte(IF k = n THEN 0 ELSE ExecStrAddr(args, top, k + 1),
                              (a - argv_base) % USIZE_BYTES)
           ELSE LET i == CHOOSE j \in 1 .. n :
                            /\ ExecStrAddr(args, top, j) <= a
                            /\ a < ExecStrAddr(args, top, j - 1)
                    off == a - ExecStrAddr(args, top, i)
                    bytes == AsBytes(args[i])
                IN  IF off < Len(bytes) THEN bytes[off + 1] ELSE 0]

\* the trap context exec installs: app_init_context(entry_point, user_sp, ..)
\* with user_sp aligned down to 8 bytes, x[10] = args.len(), x[11] = argv_base
ExecTrapCx(args, top) ==
    LET user_sp == ExecStrAddr(args, top, Len(args))
    IN  [x10 |-> Len(args), x11 |-> top - (Len(args) + 1) * USIZE_BYTES, x12 |-> 0,
         sp |-> user_sp - (user_sp % USIZE_BYTES), sepc |-> ElfEntry]

\* ecall exec(path, args) from user pc: sys_exec collects the argument
\* strings with translated_str, opens the file and, when it exists, calls
\* ProcessControlBlock::exec; then the trap tail stores the result
EcallExec(t, path, uargs, pc) ==
    /\ InUser(t)
    /\ LET p == ProcOf(t)
           args == [i \in 1 .. Len(uargs) |-> TranslatedStr(uargs[i])]
       IN  IF path \in ElfFiles
           THEN /\ kernel_panic' = (Len(tasks[p]) # 1)
                /\ user_image' = [user_image EXCEPT
                                     ![p] = [elf |-> path, mem |-> ExecMem(args, UstackTop)]]
                /\ trap_cx' = [trap_cx EXCEPT
                                  ![t] = StoreResult(ExecTrapCx(args, UstackTop), 0)]
                /\ last_call' = [call |-> "exec", task |-> t, path |-> path,
                                 args |-> uargs, ret |-> 0, pc |-> pc]
           ELSE /\ trap_cx' = [trap_cx EXCEPT ![t] = StoreResult(TrapEnter(0, 0, pc), -1)]
                /\ last_call' = [call |-> "exec", task |-> t, path |-> path,
                                 args |-> uargs, ret |-> -1, pc |-> pc]
                /\ UNCHANGED <<kernel_panic, user_image>>
    /\ kpc' = [kpc EXCEPT ![t] = "signals"]
    /\ UNCHANGED <<ready_queue, current, task_status, syncVars, sigVars>>
    /\ UNCHANGED <<task_proc, task_res, task_exit_code, timers, now_ms, shutdown>>
    /\ UNCHANGED <<proc_state, proc_pid, parent, children, is_zombie, exit_code, tasks,
                   task_res_allocator, pid_allocator, pid2process, wstatus>>
    /\ UNCHANGED <<memVars, listVars, fd_table, input_dev>>

NextExec ==
    \/ Dispatch
    \/ \E t \in Tasks : \E pc \in UserPcs : EcallYield(t, pc)
    \/ \E t \in Tasks : ResumeYield(t)
    \/ \E t \in Tasks : HandleSignals(t)
    \* the process initproc forked calls exec
    \/ \E t \in UserTasks : \E path \in ExecPaths : \E uargs \in ExecArgs :
          \E pc \in UserPcs : EcallExec(t, path, uargs, pc)

SpecExec == InitLife /\ [][NextExec]_vars

\* ------------------------------------------------------- SpecCount
\* ProcessControlBlockInner::thread_count
ThreadCount(p) == Len(tasks[p])

\* one process creates, exits and joins threads, and calls exec
NextCount ==
    \/ Dispatch
    \/ \E t \in Tasks : SysYield(t)
    \/ \E t \in Tasks : \E e \in ThreadEntries : \E a \in ThreadArgs : SysThreadCreate(t, e, a)
    \/ \E t \in Tasks : \E c \in ExitCodes : SysExit(t, c)
    \/ \E t \in Tasks : \E tid \in 0 .. NThreads : SysWaittid(t, tid)
    \/ \E t \in Tasks : \E path \in ExecPaths : \E pc \in UserPcs : EcallExec(t, path, <<>>, pc)
    \/ \E t \in Tasks : HandleSignals(t)

SpecCount == InitBoot /\ [][NextCount]_vars

\* ------------------------------------------------------- SpecSpawn
\* sys_thread_create in two steps, with the interrupts its body can take in
\* between.  First step: TaskControlBlock::new and add_task; the trap
\* context page of the new thread is a fresh, zeroed frame.
ThreadCreateAdd(t, entry, arg, pc) ==
    /\ InUser(t)
    /\ \E n \in Tasks : task_proc[n] = None
    /\ LET p == ProcOf(t)
           n == FreshTask
           a == RecycleAlloc(task_res_allocator[p])
       IN  /\ task_res_allocator' = [task_res_allocator EXCEPT ![p] = a.next]
           /\ task_proc' = [task_proc EXCEPT ![n] = Some(p)]
           /\ task_res' = [task_res EXCEPT ![n] = Some(a.id)]
           /\ task_status' = [task_status EXCEPT ![n] = "Ready"]
           /\ ready_queue' = add_task(ready_queue, n)
           /\ trap_cx' = [trap_cx EXCEPT
                 ![n] = InitTrapCx,
                 ![t] = [x10 |-> entry, x11 |-> arg, x12 |-> 0, sepc |-> pc + 4]]
           /\ kpc' = [kpc EXCEPT ![t] = "thread_added", ![n] = "created"]
           /\ last_call' = [call |-> "add_task", task |-> t, new_task |-> n]
    /\ UNCHANGED <<current, syncVars, sigVars>>
    /\ UNCHANGED <<task_exit_code, timers, now_ms, kernel_panic, shutdown>>
    /\ UNCHANGED <<proc_state, proc_pid, parent, children, is_zombie, exit_code, tasks,
                   pid_allocator, pid2process, wstatus>>
    /\ UNCHANGED <<memVars, tableVars>>

\* second step: the new thread goes into process.tasks and its trap context
\* is written (app_init_context, x[10] = arg); the syscall returns the tid
ThreadCreateInit(t) ==
    /\ InKernel(t, "thread_added")
    /\ LET p == ProcOf(t)
           n == CHOOSE n \in Tasks : kpc[n] = "created" /\ task_proc[n] = Some(p)
           tid == Unwrap(task_res[n])
           cx == trap_cx[t]
       IN  /\ IF Len(tasks[p]) >= tid
              THEN /\ tasks' = [tasks EXCEPT ![p] = StoreThread(@, tid, n)]
                   /\ UNCHANGED kernel_panic
              ELSE /\ kernel_panic' = TRUE
                   /\ UNCHANGED tasks
           /\ trap_cx' = [trap_cx EXCEPT
                 ![n] = [InitTrapCx EXCEPT !.sepc = cx.x10, !.x10 = cx.x11],
                 ![t] = StoreResult([x10 |-> cx.x10, x12 |-> cx.x12, sepc |-> cx.sepc],
                                    tid)]
           /\ kpc' = [kpc EXCEPT ![t] = "user", ![n] = "user"]
           /\ last_call' = [call |-> "thread_create", task |-> t, ret |-> tid]
    /\ UNCHANGED <<ready_queue, current, task_status, syncVars, sigVars>>
    /\ UNCHANGED <<task_proc, task_res, task_exit_code, timers, now_ms, shutdown>>
    /\ UNCHANGED <<proc_state, proc_pid, parent, children, is_zombie, exit_code,
                   task_res_allocator, pid_allocator, pid2process, wstatus>>
    /\ UNCHANGED <<memVars, tableVars>>

NextSpawn ==
    \/ Dispatch
    \/ Tick
    \/ KernelTimerIrq
    \/ \E t \in Tasks : SysYield(t)
    \/ \E t \in Tasks : TimerPreempt(t)
    \/ \E t \in Tasks : \E ms \in 0 .. MaxSleep : SleepAddTimer(t, ms)
    \/ \E t \in Tasks : SleepBlock(t)
    \/ \E t \in Tasks : ResumeSleep(t)
    \/ \E t \in Tasks : \E e \in ThreadEntries : \E a \in ThreadArgs : \E pc \in UserPcs :
          ThreadCreateAdd(t, e, a, pc)
    \/ \E t \in Tasks : ThreadCreateInit(t)
    \/ \E t \in Tasks : \E cause \in KernelCauses : \E src \in IrqSources :
          TrapFromKernel(t, cause, src)
    \/ \E t \in Tasks : \E src \in IrqSources : UserExternalIrq(t, src)

SpecSpawn == InitBoot /\ [][NextSpawn]_vars

\* ------------------------------------------------------- SpecInput
\* events one interrupt of the input device can deliver, and events the
\* device delivers in all
MaxPending == 2
MaxEvents == 3

\* Condvar::signal as handle_irq calls it: once, when count > 0
HandleIrqSignal(wq, count) ==
    IF count > 0 THEN CondvarSignalOutcome(wq) ELSE [wq |-> wq, woken |-> None]

\* one pass of the loop of read_event, entered from the caller or after the
\* wake-up, with the device locked and interrupts off: take the first event
\* and return it, or wait_no_sched (enqueue on the condvar,
\* block_current_task).  The thread keeps the hart until it calls schedule.
InputReadEvent(t) ==
    /\ KernelAlive
    /\ current = Some(t)
    /\ kpc[t] \in {"user", "input_switched"}
    /\ task_status[t] = "Running"
    /\ LET p == pop_front(input_dev.events)
       IN  IF IsSome(p.item)
           THEN /\ input_dev' = [input_dev EXCEPT
                                   !.events = p.rest,
                                   !.taken = Append(@, [task |-> t, event |-> Unwrap(p.item)])]
                /\ kpc' = [kpc EXCEPT ![t] = "user"]
                /\ last_call' = [call |-> "read_event", task |-> t, ret |-> p.item]
                /\ UNCHANGED task_status
           ELSE /\ input_dev' = [input_dev EXCEPT !.wait_queue = CondvarEnqueue(@, t)]
                /\ task_status' = [task_status EXCEPT ![t] = "Blocked"]
                /\ kpc' = [kpc EXCEPT ![t] = "input_waiting"]
                /\ last_call' = [call |-> "read_event", task |-> t, ret |-> None]
    /\ UNCHANGED <<ready_queue, current, syncVars, lifeVars, procVars, sigVars>>
    /\ UNCHANGED <<memVars, listVars, fd_table, user_image>>

\* drop(inner); schedule(task_cx_ptr): the reader leaves the hart
InputSchedule(t) ==
    /\ InKernel(t, "input_waiting")
    /\ current' = None
    /\ kpc' = [kpc EXCEPT ![t] = "input_switched"]
    /\ last_call' = NoCall
    /\ UNCHANGED <<ready_queue, task_status, syncVars, lifeVars, procVars, sigVars>>
    /\ UNCHANGED <<memVars, tableVars>>

\* handle_irq with count pending events, taken wherever interrupts are on:
\* in user mode, in the idle loop, and in read_event after drop(inner)
InputHandleIrq(count) ==
    /\ KernelAlive
    /\ IF current = None THEN TRUE
       ELSE kpc[Unwrap(current)] \in {"user", "input_waiting"}
    /\ input_dev.arrived + count <= MaxEvents
    /\ LET r == HandleIrqSignal(input_dev.wait_queue, count)
           new == [i \in 1 .. count |-> input_dev.arrived + i]
       IN  /\ input_dev' = [input_dev EXCEPT !.events = @ \o new,
                                             !.arrived = @ + count,
                                             !.wait_queue = r.wq]
           /\ task_status' = wakeup_opt_status(task_status, r.woken)
           /\ ready_queue' = wakeup_opt_queue(ready_queue, r.woken)
           /\ last_call' = [call |-> "handle_irq", count |-> count, woken |-> r.woken,
                            waiting |-> input_dev.wait_queue]
    /\ UNCHANGED <<current, kpc, syncVars, lifeVars, procVars, sigVars>>
    /\ UNCHANGED <<memVars, listVars, fd_table, user_image>>

NextInput ==
    \/ Dispatch
    \/ \E t \in Tasks : SysYield(t)
    \/ \E t \in Tasks : InputReadEvent(t)
    \/ \E t \in Tasks : InputSchedule(t)
    \/ \E count \in 0 .. MaxPending : InputHandleIrq(count)

SpecInput == InitSync /\ [][NextInput]_vars

\* ------------------------------------------------------- SpecMask
\* the child blocks signals with sigprocmask and installs a handler for
\* SIGUSR1; initproc sends it a fatal signal, a handled one and SIGSTOP
MaskKillSignals == {SIG.INT, SIG.USR1, SIG.STOP}
MaskProcMasks == {{}, {SIG.INT, SIG.USR1, SIG.STOP}}
MaskSigactionArgs ==
    {[signum |-> SIG.USR1, action_ptr |-> 80, old_action_ptr |-> 72,
      action |-> [handler |-> 16, mask |-> {}]]}

NextMask ==
    \/ Dispatch
    \/ \E t \in Tasks : \E pc \in UserPcs : EcallYield(t, pc)
    \/ \E t \in Tasks : ResumeYield(t)
    \/ \E t \in Tasks : HandleSignals(t)
    \/ \E t \in InitprocTasks : \E pid \in KillPids : \E sig \in MaskKillSignals :
          \E pc \in UserPcs : EcallKill(t, pid, sig, pc)
    \/ \E t \in UserTasks : \E a \in MaskSigactionArgs : \E pc \in UserPcs :
          EcallSigaction(t, a.signum, a.action_ptr, a.action, a.old_action_ptr, pc)
    \/ \E t \in UserTasks : \E m \in MaskProcMasks : \E pc \in UserPcs :
          EcallSigprocmask(t, m, pc)

SpecMask == InitLife /\ [][NextMask]_vars

\* ------------------------------------------------------- SpecFrozen
\* ecall thread_create(entry, arg) from user pc: sys_thread_create, then the
\* trap tail.  The new thread's task context is goto_trap_return, so its
\* first dispatch enters user mode without a pass of handle_signals.
EcallThreadCreate(t, entry, arg, pc) ==
    /\ InUser(t)
    /\ \E n \in Tasks : task_proc[n] = None
    /\ LET p == ProcOf(t)
           n == FreshTask
           a == RecycleAlloc(task_res_allocator[p])
       IN  /\ task_res_allocator' = [task_res_allocator EXCEPT ![p] = a.next]
           /\ task_proc' = [task_proc EXCEPT ![n] = Some(p)]
           /\ task_res' = [task_res EXCEPT ![n] = Some(a.id)]
           /\ task_status' = [task_status EXCEPT ![n] = "Ready"]
           /\ ready_queue' = add_task(ready_queue, n)
           /\ IF Len(tasks[p]) >= a.id
              THEN /\ tasks' = [tasks EXCEPT ![p] = StoreThread(@, a.id, n)]
                   /\ UNCHANGED kernel_panic
              ELSE /\ kernel_panic' = TRUE
                   /\ UNCHANGED tasks
           /\ trap_cx' = [trap_cx EXCEPT
                 ![n] = [InitTrapCx EXCEPT !.sepc = entry, !.x10 = arg],
                 ![t] = StoreResult(TrapEnter(entry, 0, pc), a.id)]
           /\ kpc' = [kpc EXCEPT ![t] = "signals", ![n] = "user"]
           /\ last_call' = [call |-> "thread_create", task |-> t, ret |-> a.id]
    /\ UNCHANGED <<current, syncVars, sigVars>>
    /\ UNCHANGED <<task_exit_code, timers, now_ms, shutdown>>
    /\ UNCHANGED <<proc_state, proc_pid, parent, children, is_zombie, exit_code,
                   pid_allocator, pid2process, wstatus>>
    /\ UNCHANGED <<memVars, tableVars>>

FrozenKillSignals == {SIG.STOP, SIG.CONT, SIG.KILL, SIG.DEF}

NextFrozen ==
    \/ Dispatch
    \/ \E t \in Tasks : \E pc \in UserPcs : EcallYield(t, pc)
    \/ \E t \in Tasks : ResumeYield(t)
    \/ \E t \in Tasks : HandleSignals(t)
    \/ \E t \in InitprocTasks : \E pid \in KillPids : \E sig \in FrozenKillSignals :
          \E pc \in UserPcs : EcallKill(t, pid, sig, pc)
    \/ \E t \in UserTasks : \E e \in ThreadEntries : \E a \in ThreadArgs :
          \E pc \in UserPcs : EcallThreadCreate(t, e, a, pc)

SpecFrozen == InitLife /\ [][NextFrozen]_vars

\* ------------------------------------------------------- SpecFd
\* an alloc_fd that always extends the table
AllocFdAlwaysPush(table) == [fd |-> Len(table), table |-> Append(table, None)]

\* ProcessControlBlockInner::alloc_fd: the first empty slot, or a new slot
\* pushed at the end when none is empty
AllocFdOutcome(table) ==
    IF \E i \in 1 .. Len(table) : table[i] = None
    THEN [fd |-> (CHOOSE i \in 1 .. Len(table) :
                     /\ table[i] = None
                     /\ \A j \in 1 .. i - 1 : table[j] # None) - 1,
          table |-> table]
    ELSE AllocFdAlwaysPush(table)

\* a syscall of task t on the fd_table of its process: the table it leaves
\* and what it returns
FdCall(t, call, arg, table, ret) ==
    /\ InUser(t)
    /\ fd_table' = [fd_table EXCEPT ![ProcOf(t)] = table]
    /\ UNCHANGED <<user_image, input_dev>>
    /\ last_call' = [call |-> call, task |-> t, arg |-> arg, ret |-> ret]
    /\ UNCHANGED <<schedVars, syncVars, lifeVars, procVars, sigVars, memVars, listVars>>

\* sys_connect: a new UDP socket in the slot alloc_fd returns
SysConnect(t) ==
    /\ InUser(t)
    /\ LET a == AllocFdOutcome(fd_table[ProcOf(t)])
       IN  /\ Len(a.table) <= MaxFds
           /\ FdCall(t, "connect", 0, [a.table EXCEPT ![a.fd + 1] = Some("udp")], a.fd)

\* sys_dup(fd): a copy of the file of fd in the slot alloc_fd returns
SysDup(t, fd) ==
    /\ InUser(t)
    /\ LET table == fd_table[ProcOf(t)]
           a == AllocFdOutcome(table)
       IN  IF fd >= Len(table) THEN FdCall(t, "dup", fd, table, -1)
           ELSE IF table[fd + 1] = None THEN FdCall(t, "dup", fd, table, -1)
           ELSE /\ Len(a.table) <= MaxFds
                /\ FdCall(t, "dup", fd, [a.table EXCEPT ![a.fd + 1] = table[fd + 1]], a.fd)

\* sys_close(fd): the slot of fd becomes empty
SysClose(t, fd) ==
    /\ InUser(t)
    /\ LET table == fd_table[ProcOf(t)]
       IN  IF fd >= Len(table) THEN FdCall(t, "close", fd, table, -1)
           ELSE IF table[fd + 1] = None THEN FdCall(t, "close", fd, table, -1)
           ELSE FdCall(t, "close", fd, [table EXCEPT ![fd + 1] = None], 0)

\* the file descriptors user programs pass
Fds == 0 .. MaxFds

NextFd ==
    \/ \E t \in Tasks : SysConnect(t)
    \/ \E t \in Tasks : \E fd \in Fds : SysDup(t, fd)
    \/ \E t \in Tasks : \E fd \in Fds : SysClose(t, fd)

SpecFd == InitLife /\ [][NextFd]_vars

\* ------------------------------------------------------- SpecHandle
\* process_inner.mutex_list[mutex_id].as_ref().unwrap(), and the same on
\* semaphore_list and condvar_list: the object of a handle.  An index beyond
\* the list is an index out of bounds, an empty slot an unwrap of None.
HandleLookup(list, id) ==
    IF id >= Len(list) THEN [panics |-> TRUE, object |-> None]
    ELSE IF list[id + 1] = None THEN [panics |-> TRUE, object |-> None]
    ELSE [panics |-> FALSE, object |-> list[id + 1]]

\* the kernel panics inside the syscall call of task t, given handle id
HandlePanic(t, call, list, id) ==
    /\ InUser(t)
    /\ kernel_panic' = TRUE
    /\ last_call' = [call |-> call, task |-> t, list |-> list, handle |-> id,
                     panics |-> TRUE]
    /\ UNCHANGED <<schedVars, syncVars, procVars, sigVars, memVars, tableVars>>
    /\ UNCHANGED <<task_proc, task_res, task_exit_code, timers, now_ms, shutdown>>

\* sys_mutex_lock(mutex_id)
SysMutexLockId(t, mutex_id) ==
    /\ InUser(t)
    /\ IF HandleLookup(mutex_list[ProcOf(t)], mutex_id).panics
       THEN HandlePanic(t, "mutex_lock", "mutex", mutex_id)
       ELSE SysMutexLock(t)

\* sys_mutex_unlock(mutex_id)
SysMutexUnlockId(t, mutex_id) ==
    /\ InUser(t)
    /\ IF HandleLookup(mutex_list[ProcOf(t)], mutex_id).panics
       THEN HandlePanic(t, "mutex_unlock", "mutex", mutex_id)
       ELSE SysMutexUnlock(t)

\* sys_semaphore_up(sem_id)
SysSemaphoreUpId(t, sem_id) ==
    /\ InUser(t)
    /\ IF HandleLookup(semaphore_list[ProcOf(t)], sem_id).panics
       THEN HandlePanic(t, "semaphore_up", "semaphore", sem_id)
       ELSE SysSemaphoreUp(t)

\* sys_semaphore_down(sem_id)
SysSemaphoreDownId(t, sem_id) ==
    /\ InUser(t)
    /\ IF HandleLookup(semaphore_list[ProcOf(t)], sem_id).panics
       THEN HandlePanic(t, "semaphore_down", "semaphore", sem_id)
       ELSE SysSemaphoreDown(t)

\* sys_condvar_signal(condvar_id)
SysCondvarSignalId(t, condvar_id) ==
    /\ InUser(t)
    /\ IF HandleLookup(condvar_list[ProcOf(t)], condvar_id).panics
       THEN HandlePanic(t, "condvar_signal", "condvar", condvar_id)
       ELSE SysCondvarSignal(t)

\* sys_condvar_wait(condvar_id, mutex_id): the condvar is looked up first
SysCondvarWaitId(t, condvar_id, mutex_id) ==
    /\ InUser(t)
    /\ IF HandleLookup(condvar_list[ProcOf(t)], condvar_id).panics
       THEN HandlePanic(t, "condvar_wait", "condvar", condvar_id)
       ELSE IF HandleLookup(mutex_list[ProcOf(t)], mutex_id).panics
       THEN HandlePanic(t, "condvar_wait", "mutex", mutex_id)
       ELSE SysCondvarWait(t)

\* the handles user programs pass: 0 names the object created, 1 is beyond
\* the list
HandleIds == {0, 1}

NextHandle ==
    \/ Dispatch
    \/ \E t \in Tasks : SysYield(t)
    \/ \E t \in Tasks : \E id \in HandleIds : SysMutexLockId(t, id)
    \/ \E t \in Tasks : ResumeLock(t)
    \/ \E t \in Tasks : \E id \in HandleIds : SysMutexUnlockId(t, id)
    \/ \E t \in Tasks : \E id \in HandleIds : SysSemaphoreDownId(t, id)
    \/ \E t \in Tasks : ResumeDown(t)
    \/ \E t \in Tasks : \E id \in HandleIds : SysSemaphoreUpId(t, id)
    \/ \E t \in Tasks : \E c, m \in HandleIds : SysCondvarWaitId(t, c, m)
    \/ \E t \in Tasks : ResumeWait(t)
    \/ \E t \in Tasks : \E id \in HandleIds : SysCondvarSignalId(t, id)

SpecHandle == InitSync /\ [][NextHandle]_vars

\* ======================================================== frame allocator
\* the physical page numbers handed to init_frame_allocator
PPNs == 0 .. NFrames - 1

\* StackFrameAllocator::alloc: pop the recycle stack, else bump current
FrameAllocOutcome(a) ==
    IF a.recycled # <<>>
    THEN [ppn |-> Some(a.recycled[Len(a.recycled)]),
          next |-> [a EXCEPT !.recycled = SubSeq(@, 1, Len(@) - 1)]]
    ELSE IF a.current = a.end
    THEN [ppn |-> None, next |-> a]
    ELSE [ppn |-> Some(a.current), next |-> [a EXCEPT !.current = @ + 1]]

\* StackFrameAllocator::dealloc: panic on a ppn never issued or already free,
\* else push it on the recycle stack
FrameDeallocOutcome(a, ppn) ==
    IF ppn >= a.current \/ Contains(a.recycled, ppn)
    THEN [panics |-> TRUE, next |-> a]
    ELSE [panics |-> FALSE, next |-> [a EXCEPT !.recycled = Append(@, ppn)]]

\* frame_alloc() by kernel code that keeps the FrameTracker it gets
FrameAlloc ==
    /\ KernelAlive
    /\ LET r == FrameAllocOutcome(FRAME_ALLOCATOR)
       IN  /\ IsSome(r.ppn)
           /\ FRAME_ALLOCATOR' = r.next
           /\ frame_trackers' = [frame_trackers EXCEPT ![Unwrap(r.ppn)] = @ + 1]
           /\ last_call' = [call |-> "frame_alloc", ppn |-> Unwrap(r.ppn)]
    /\ UNCHANGED <<QUEUE_FRAMES, dma_regions, spaceVars, tableVars>>
    /\ UNCHANGED <<schedVars, syncVars, lifeVars, procVars, sigVars>>

\* drop of a FrameTracker for ppn: frame_dealloc(self.ppn)
TrackerDrop(ppn) ==
    /\ KernelAlive
    /\ frame_trackers[ppn] > 0
    /\ LET r == FrameDeallocOutcome(FRAME_ALLOCATOR, ppn)
       IN  /\ FRAME_ALLOCATOR' = r.next
           /\ kernel_panic' = r.panics
           /\ last_call' = [call |-> "tracker_drop", ppn |-> ppn, panics |-> r.panics]
    /\ frame_trackers' = [frame_trackers EXCEPT ![ppn] = @ - 1]
    /\ UNCHANGED <<QUEUE_FRAMES, dma_regions, spaceVars, tableVars>>
    /\ UNCHANGED <<schedVars, syncVars, procVars, sigVars>>
    /\ UNCHANGED <<task_proc, task_res, task_exit_code, timers, now_ms, shutdown>>

\* VirtioHal::dma_alloc, the loop from page i on; st holds the allocator, the
\* queue of trackers, the base ppn and whether unwrap or assert_eq panicked
RECURSIVE DmaAllocFrom(_, _, _)
DmaAllocFrom(i, pages, st) ==
    IF i = pages \/ st.panics THEN st
    ELSE LET r == FrameAllocOutcome(st.alloc)
         IN  IF r.ppn = None
             THEN [st EXCEPT !.panics = TRUE]
             ELSE LET ppn == Unwrap(r.ppn)
                      base == IF i = 0 THEN ppn ELSE st.base
                  IN  IF ppn # base + i
                      THEN \* the tracker dies with the kernel
                           [st EXCEPT !.alloc = r.next, !.base = base, !.panics = TRUE]
                      ELSE DmaAllocFrom(i + 1, pages,
                              [st EXCEPT !.alloc = r.next, !.base = base,
                                         !.queue = Append(@, ppn)])

\* VirtioHal::dma_alloc(pages), called by the virtio driver
DmaAlloc(pages) ==
    /\ KernelAlive
    /\ Len(QUEUE_FRAMES) + pages <= MaxQueueFrames
    /\ LET r == DmaAllocFrom(0, pages, [alloc |-> FRAME_ALLOCATOR, queue |-> QUEUE_FRAMES,
                                        base |-> 0, panics |-> FALSE])
       IN  /\ FRAME_ALLOCATOR' = r.alloc
           /\ QUEUE_FRAMES' = r.queue
           /\ kernel_panic' = r.panics
           /\ dma_regions' = IF r.panics THEN dma_regions
                             ELSE dma_regions \cup {<<r.base, pages>>}
           /\ last_call' = [call |-> "dma_alloc", base |-> r.base, pages |-> pages,
                            panics |-> r.panics]
    /\ UNCHANGED <<frame_trackers, spaceVars, tableVars>>
    /\ UNCHANGED <<schedVars, syncVars, procVars, sigVars>>
    /\ UNCHANGED <<task_proc, task_res, task_exit_code, timers, now_ms, shutdown>>

\* VirtioHal::dma_dealloc, the loop from page i on: frame_dealloc of each page
RECURSIVE DmaDeallocFrom(_, _, _, _)
DmaDeallocFrom(i, pages, ppn_base, st) ==
    IF i = pages \/ st.panics THEN st
    ELSE LET r == FrameDeallocOutcome(st.alloc, ppn_base)
         IN  DmaDeallocFrom(i + 1, pages, ppn_base + 1,
                            [alloc |-> r.next, panics |-> r.panics])

\* VirtioHal::dma_dealloc(paddr, pages), called by the virtio driver with a
\* region it got from dma_alloc
DmaDealloc(region) ==
    /\ KernelAlive
    /\ region \in dma_regions
    /\ LET r == DmaDeallocFrom(0, region[2], region[1],
                               [alloc |-> FRAME_ALLOCATOR, panics |-> FALSE])
       IN  /\ FRAME_ALLOCATOR' = r.alloc
           /\ kernel_panic' = r.panics
           /\ last_call' = [call |-> "dma_dealloc", base |-> region[1],
                            pages |-> region[2], panics |-> r.panics]
    /\ dma_regions' = dma_regions \ {region}
    /\ UNCHANGED <<frame_trackers, QUEUE_FRAMES, spaceVars, tableVars>>
    /\ UNCHANGED <<schedVars, syncVars, procVars, sigVars>>
    /\ UNCHANGED <<task_proc, task_res, task_exit_code, timers, now_ms, shutdown>>

\* ------------------------------------------------------- SpecFrame
\* the queue sizes in pages the virtio drivers ask for
DmaPages == {1, 2}

NextFrame ==
    \/ FrameAlloc
    \/ \E ppn \in PPNs : TrackerDrop(ppn)
    \/ \E pages \in DmaPages : DmaAlloc(pages)
    \/ \E region \in dma_regions : DmaDealloc(region)

SpecFrame == InitLife /\ [][NextFrame]_vars

\* ------------------------------------------------------- SpecDealloc
\* the allocator manages [PoolStart, NFrames); the frames below PoolStart hold
\* the kernel image
PoolStart == 1

\* frame_dealloc(ppn), called by FrameTracker::drop and by the virtio HAL with
\* a page number of the caller's choice
FrameDealloc(ppn) ==
    /\ KernelAlive
    /\ LET r == FrameDeallocOutcome(FRAME_ALLOCATOR, ppn)
       IN  /\ FRAME_ALLOCATOR' = r.next
           /\ kernel_panic' = r.panics
           /\ last_call' = [call |-> "frame_dealloc", ppn |-> ppn, panics |-> r.panics]
    /\ UNCHANGED <<frame_trackers, QUEUE_FRAMES, dma_regions, spaceVars, tableVars>>
    /\ UNCHANGED <<schedVars, syncVars, procVars, sigVars>>
    /\ UNCHANGED <<task_proc, task_res, task_exit_code, timers, now_ms, shutdown>>

\* most FrameTrackers one frame may have at a time in SpecDealloc
MaxTrackers == 2

FrameAllocBounded ==
    /\ \A ppn \in PPNs : frame_trackers[ppn] < MaxTrackers
    /\ FrameAlloc

NextDealloc ==
    \/ FrameAllocBounded
    \/ \E ppn \in PPNs : TrackerDrop(ppn)
    \/ \E ppn \in PPNs : FrameDealloc(ppn)

SpecDealloc == InitLifeFrom(PoolStart) /\ [][NextDealloc]_vars

\* ========================================================= address spaces
\* the virtual page numbers of the model and VirtPageNum::indexes: one index
\* per level of the three-level page table
VPNs == 0 .. 7
Indexes(vpn) == <<vpn \div 4, (vpn \div 2) % 2, vpn % 2>>

\* the virtual page of TRAMPOLINE: the highest page of the address space
TRAMPOLINE_VPN == 7

\* the virtual page of FB_VADDR, and the pn_offset sys_framebuffer computes
FB_VPN == 4
FbPnOffset == FB_PPN - FB_VPN

\* Op applied to the value x: the result of a call, bound to a name
With(x, Op(_)) == Op(x)

\* the allocator and the physical memory, as a kernel function finds them
World == [alloc |-> FRAME_ALLOCATOR, ptes |-> frame_ptes, data |-> frame_data,
          panics |-> FALSE]

\* frame_alloc().unwrap(): FrameTracker::new zeroes the frame
FrameAllocUnwrap(w) ==
    With(FrameAllocOutcome(w.alloc), LAMBDA r :
        IF w.panics \/ r.ppn = None
        THEN [w |-> [w EXCEPT !.panics = TRUE], ppn |-> 0]
        ELSE [w |-> [w EXCEPT !.alloc = r.next,
                              !.ptes[Unwrap(r.ppn)] = ZeroTable,
                              !.data[Unwrap(r.ppn)] = 0],
              ppn |-> Unwrap(r.ppn)])

\* drop of the FrameTracker of ppn.  The contents of a free frame are not
\* kept: nothing reads them before FrameTracker::new overwrites them.
FrameTrackerDrop(w, ppn) ==
    LET r == FrameDeallocOutcome(w.alloc, ppn)
    IN  IF w.panics THEN w
        ELSE IF r.panics THEN [w EXCEPT !.panics = TRUE]
        ELSE [w EXCEPT !.alloc = r.next, !.ptes[ppn] = ZeroTable, !.data[ppn] = 0]

\* PageTable::new inside MemorySet::new_bare
NewBare(w) ==
    LET a == FrameAllocUnwrap(w)
    IN  [ms |-> [stage |-> "bare", root_ppn |-> a.ppn, frames |-> <<a.ppn>>,
                 areas |-> <<>>],
         w |-> a.w]

\* find_pte_create, one of the two upper levels: follow the entry idx of the
\* table in frame ppn, allocating the next table when the entry is invalid.
\* z holds the MemorySet ms, the world w and the MapArea being worked on.
PteCreateLevel(z, ppn, idx) ==
    With(FrameAllocUnwrap(z.w), LAMBDA a :
    LET pte == z.w.ptes[ppn][idx]
    IN  IF z.w.panics THEN [z |-> z, ppn |-> 0]
        ELSE IF pte.valid THEN [z |-> z, ppn |-> pte.ppn]
        ELSE IF a.w.panics THEN [z |-> [z EXCEPT !.w = a.w], ppn |-> 0]
        ELSE [z |-> [z EXCEPT !.ms.frames = Append(@, a.ppn),
                              !.w = [a.w EXCEPT !.ptes[ppn][idx] = Pte(a.ppn, {"V"})]],
              ppn |-> a.ppn])

\* PageTable::find_pte_create: the frame and index of the third-level entry
FindPteCreate(z, vpn) ==
    With(PteCreateLevel(z, z.ms.root_ppn, Indexes(vpn)[1]), LAMBDA l0 :
    With(PteCreateLevel(l0.z, l0.ppn, Indexes(vpn)[2]), LAMBDA l1 :
        [z |-> l1.z, ppn |-> l1.ppn, idx |-> Indexes(vpn)[3]]))

\* PageTable::find_pte: the third-level entry, None when an upper-level
\* entry on the way is invalid
FindPte(root_ppn, ptes, vpn) ==
    LET i == Indexes(vpn)
        pte0 == ptes[root_ppn][i[1]]
        pte1 == ptes[pte0.ppn][i[2]]
    IN  IF ~pte0.valid THEN None
        ELSE IF ~pte1.valid THEN None
        ELSE Some([ppn |-> pte1.ppn, idx |-> i[3]])

\* PageTable::translate: a copy of the entry find_pte found
Translate(root_ppn, ptes, vpn) ==
    LET loc == FindPte(root_ppn, ptes, vpn)
    IN  IF loc = None THEN None ELSE Some(ptes[Unwrap(loc).ppn][Unwrap(loc).idx])

\* PageTable::map
PageTableMap(z, vpn, ppn, flags) ==
    With(FindPteCreate(z, vpn), LAMBDA r :
        IF r.z.w.panics THEN r.z
        ELSE IF r.z.w.ptes[r.ppn][r.idx].valid
        THEN \* assert!(!pte.is_valid())
             [r.z EXCEPT !.w.panics = TRUE]
        ELSE [r.z EXCEPT !.w.ptes[r.ppn][r.idx] = Pte(ppn, flags \cup {"V"})])

\* PageTable::unmap
PageTableUnmap(z, vpn) ==
    LET loc == FindPte(z.ms.root_ppn, z.w.ptes, vpn)
    IN  IF z.w.panics THEN z
        ELSE IF loc = None THEN [z EXCEPT !.w.panics = TRUE]
        ELSE IF ~z.w.ptes[Unwrap(loc).ppn][Unwrap(loc).idx].valid
        THEN \* assert!(pte.is_valid())
             [z EXCEPT !.w.panics = TRUE]
        ELSE [z EXCEPT !.w.ptes[Unwrap(loc).ppn][Unwrap(loc).idx] = EmptyPte]

\* MemorySet::map_trampoline: a direct map, no MapArea
MapTrampoline(ms, w) ==
    LET z == PageTableMap([ms |-> ms, w |-> w, area |-> None],
                          TRAMPOLINE_VPN, STRAMPOLINE_PPN, {"R", "X"})
    IN  [ms |-> [z.ms EXCEPT !.stage = "built"], w |-> z.w]

\* MapArea::new over the pages [vpn_start, vpn_end)
MapAreaNew(vpn_start, vpn_end, map_type, map_perm) ==
    [vpn_start |-> vpn_start, vpn_end |-> vpn_end, data_frames |-> <<>>,
     map_type |-> map_type, map_perm |-> map_perm]

\* a from_another that drops the write permission
FromAnotherReadOnly(another) ==
    MapAreaNew(another.vpn_start, another.vpn_end, another.map_type,
               another.map_perm \ {"W"})

\* MapArea::from_another
FromAnother(another) ==
    MapAreaNew(another.vpn_start, another.vpn_end, another.map_type, another.map_perm)

\* the map types: Framed and Identical, and the Linear(pn_offset) that
\* sys_framebuffer passes
Framed == [kind |-> "Framed"]
Identical == [kind |-> "Identical"]
Linear(pn_offset) == [kind |-> "Linear", pn_offset |-> pn_offset]

\* BTreeMap::insert and remove on data_frames, a map from vpn to the ppn of
\* the FrameTracker
MapInsert(f, k, v) == [x \in DOMAIN f \cup {k} |-> IF x = k THEN v ELSE f[x]]
MapRemove(f, k) == [x \in DOMAIN f \ {k} |-> f[x]]

\* MapArea::map_one
MapOne(z, vpn) ==
    LET a == FrameAllocUnwrap(z.w)
    IN  IF z.w.panics THEN z
        ELSE IF z.area.map_type.kind = "Identical"
        THEN PageTableMap(z, vpn, vpn, z.area.map_perm)
        ELSE IF z.area.map_type.kind = "Linear"
        THEN PageTableMap(z, vpn, vpn + z.area.map_type.pn_offset, z.area.map_perm)
        ELSE IF a.w.panics THEN [z EXCEPT !.w = a.w]
        ELSE PageTableMap([z EXCEPT !.w = a.w,
                                    !.area.data_frames = MapInsert(@, vpn, a.ppn)],
                          vpn, a.ppn, z.area.map_perm)

\* MapArea::map, the loop from vpn on
RECURSIVE MapFrom(_, _)
MapFrom(z, vpn) ==
    IF vpn >= z.area.vpn_end \/ z.w.panics THEN z
    ELSE MapFrom(MapOne(z, vpn), vpn + 1)

\* MapArea::unmap_one
UnmapOne(z, vpn) ==
    IF z.w.panics THEN z
    ELSE IF z.area.map_type.kind = "Framed" /\ vpn \in DOMAIN z.area.data_frames
    THEN PageTableUnmap([z EXCEPT !.w = FrameTrackerDrop(@, z.area.data_frames[vpn]),
                                  !.area.data_frames = MapRemove(@, vpn)], vpn)
    ELSE PageTableUnmap(z, vpn)

\* MapArea::unmap, the loop from vpn on
RECURSIVE UnmapFrom(_, _)
UnmapFrom(z, vpn) ==
    IF vpn >= z.area.vpn_end \/ z.w.panics THEN z
    ELSE UnmapFrom(UnmapOne(z, vpn), vpn + 1)

\* MemorySet::push with data = None
Push(ms, w, map_area) ==
    LET z == MapFrom([ms |-> ms, w |-> w, area |-> map_area], map_area.vpn_start)
    IN  [ms |-> [z.ms EXCEPT !.areas = Append(@, z.area)], w |-> z.w]

\* MemorySet::insert_framed_area
InsertFramedArea(ms, w, vpn_start, vpn_end, permission) ==
    Push(ms, w, MapAreaNew(vpn_start, vpn_end, Framed, permission))

\* remove_area_with_start_vpn that drops the area without area.unmap
RemoveAreaKeepsPtes(ms, w, start_vpn) ==
    LET found == {i \in 1 .. Len(ms.areas) : ms.areas[i].vpn_start = start_vpn}
        idx == CHOOSE i \in found : \A j \in found : i <= j
        z == UnmapFrom([ms |-> ms, w |-> w, area |-> ms.areas[idx]], start_vpn)
    IN  IF found = {} THEN [ms |-> ms, w |-> w]
        ELSE [ms |-> [z.ms EXCEPT !.areas = SubSeq(@, 1, idx - 1) \o
                                            SubSeq(@, idx + 1, Len(@))],
              w |-> [z.w EXCEPT !.ptes = w.ptes]]

\* MemorySet::remove_area_with_start_vpn
RemoveAreaWithStartVpn(ms, w, start_vpn) ==
    LET found == {i \in 1 .. Len(ms.areas) : ms.areas[i].vpn_start = start_vpn}
        idx == CHOOSE i \in found : \A j \in found : i <= j
        z == UnmapFrom([ms |-> ms, w |-> w, area |-> ms.areas[idx]], start_vpn)
    IN  IF found = {} THEN [ms |-> ms, w |-> w]
        ELSE [ms |-> [z.ms EXCEPT !.areas = SubSeq(@, 1, idx - 1) \o
                                            SubSeq(@, idx + 1, Len(@))],
              w |-> z.w]

\* drop of the FrameTrackers whose ppns are in the sequence ppns, in order
RECURSIVE DropTrackers(_, _)
DropTrackers(w, ppns) ==
    IF ppns = <<>> THEN w
    ELSE DropTrackers(FrameTrackerDrop(w, Head(ppns)), Tail(ppns))

\* the ppns in data_frames in the order of their keys
RECURSIVE FramesFrom(_, _)
FramesFrom(f, vpn) ==
    IF vpn > TRAMPOLINE_VPN THEN <<>>
    ELSE (IF vpn \in DOMAIN f THEN <<f[vpn]>> ELSE <<>>) \o FramesFrom(f, vpn + 1)

\* the ppns of the data frames of a sequence of areas, in drop order
RECURSIVE AreaFrames(_)
AreaFrames(areas) ==
    IF areas = <<>> THEN <<>>
    ELSE FramesFrom(Head(areas).data_frames, 0) \o AreaFrames(Tail(areas))

\* MemorySet::recycle_data_pages: areas.clear()
RecycleDataPages(ms, w) ==
    [ms |-> [ms EXCEPT !.areas = <<>>, !.stage = "recycled"],
     w |-> DropTrackers(w, AreaFrames(ms.areas))]

\* PageTableEntry::ppn of translate(vpn).unwrap(); the unwrap panics on None
TranslatedPpn(ms, w, vpn) ==
    LET pte == Translate(ms.root_ppn, w.ptes, vpn)
    IN  IF pte = None THEN [panics |-> TRUE, ppn |-> 0]
        ELSE [panics |-> FALSE, ppn |-> Unwrap(pte).ppn]

\* from_existed_user, the copy of the pages of one area from vpn on
RECURSIVE CopyFrom(_, _, _, _)
CopyFrom(user_space, r, vpn, vpn_end) ==
    LET src == TranslatedPpn(user_space, r.w, vpn)
        dst == TranslatedPpn(r.ms, r.w, vpn)
    IN  IF vpn >= vpn_end \/ r.w.panics THEN r
        ELSE IF src.panics \/ dst.panics THEN [r EXCEPT !.w.panics = TRUE]
        ELSE CopyFrom(user_space,
                      [r EXCEPT !.w.data[dst.ppn] = r.w.data[src.ppn]],
                      vpn + 1, vpn_end)

\* from_existed_user, the loop over the areas of user_space from the i-th on
RECURSIVE CloneAreasFrom(_, _, _)
CloneAreasFrom(user_space, r, i) ==
    IF i > Len(user_space.areas) \/ r.w.panics THEN r
    ELSE LET area == user_space.areas[i]
             pushed == Push(r.ms, r.w, FromAnother(area))
         IN  CloneAreasFrom(user_space,
                            CopyFrom(user_space, pushed, area.vpn_start, area.vpn_end),
                            i + 1)

\* MemorySet::from_existed_user
FromExistedUser(user_space, w) ==
    LET bare == NewBare(w)
        built == MapTrampoline(bare.ms, bare.w)
    IN  CloneAreasFrom(user_space, built, 1)

\* ------------------------------------------------------- SpecSpace
\* the result r of a MemorySet function becomes the state of MemorySet m
CommitSpace(m, r) ==
    /\ memory_sets' = [memory_sets EXCEPT ![m] = r.ms]
    /\ FRAME_ALLOCATOR' = r.w.alloc
    /\ frame_ptes' = r.w.ptes
    /\ frame_data' = r.w.data
    /\ kernel_panic' = r.w.panics
    /\ UNCHANGED <<frame_trackers, QUEUE_FRAMES, dma_regions, tableVars>>
    /\ UNCHANGED <<schedVars, syncVars, procVars, sigVars>>
    /\ UNCHANGED <<task_proc, task_res, task_exit_code, timers, now_ms, shutdown>>

\* the pages an area covers, and the pages the areas of a MemorySet cover
AreaPages(area) == area.vpn_start .. area.vpn_end - 1
Covered(ms) == UNION {AreaPages(ms.areas[i]) : i \in 1 .. Len(ms.areas)}

\* MemorySet::new_bare for MemorySet m
SpaceNewBare(m) ==
    /\ KernelAlive
    /\ memory_sets[m].stage = "none"
    /\ CommitSpace(m, NewBare(World))
    /\ last_call' = [call |-> "new_bare", space |-> m]

\* map_trampoline, which from_elf and from_existed_user call after new_bare
SpaceMapTrampoline(m) ==
    /\ KernelAlive
    /\ memory_sets[m].stage = "bare"
    /\ CommitSpace(m, MapTrampoline(memory_sets[m], World))
    /\ last_call' = [call |-> "map_trampoline", space |-> m]

\* insert_framed_area over pages no area of m covers yet
SpaceInsertFramedArea(m, range, permission) ==
    /\ KernelAlive
    /\ memory_sets[m].stage = "built"
    /\ (range[1] .. range[2] - 1) \cap Covered(memory_sets[m]) = {}
    /\ CommitSpace(m, InsertFramedArea(memory_sets[m], World, range[1], range[2],
                                       permission))
    /\ last_call' = [call |-> "insert_framed_area", space |-> m]

\* sys_framebuffer: push of a Linear area over the framebuffer page
SpaceFramebuffer(m) ==
    /\ KernelAlive
    /\ memory_sets[m].stage = "built"
    /\ FB_VPN \notin Covered(memory_sets[m])
    /\ CommitSpace(m, Push(memory_sets[m], World,
                           MapAreaNew(FB_VPN, FB_VPN + 1, Linear(FbPnOffset),
                                      {"R", "W", "U"})))
    /\ last_call' = [call |-> "framebuffer", space |-> m]

\* remove_area_with_start_vpn
SpaceRemoveArea(m, start_vpn) ==
    /\ KernelAlive
    /\ memory_sets[m].stage = "built"
    /\ CommitSpace(m, RemoveAreaWithStartVpn(memory_sets[m], World, start_vpn))
    /\ last_call' = [call |-> "remove_area", space |-> m]

\* recycle_data_pages, when the process of m exits
SpaceRecycleDataPages(m) ==
    /\ KernelAlive
    /\ memory_sets[m].stage = "built"
    /\ CommitSpace(m, RecycleDataPages(memory_sets[m], World))
    /\ last_call' = [call |-> "recycle_data_pages", space |-> m]

\* child = MemorySet::from_existed_user(parent), in fork
SpaceFromExistedUser(parent_space, child) ==
    /\ KernelAlive
    /\ memory_sets[parent_space].stage = "built"
    /\ memory_sets[child].stage = "none"
    /\ LET r == FromExistedUser(memory_sets[parent_space], World)
       IN  /\ CommitSpace(child, r)
           /\ last_call' = [call |-> "from_existed_user", space |-> child,
                            user_space |-> parent_space, panics |-> r.w.panics]

\* the program running in MemorySet m stores val into a page it may write
UserWrite(m, vpn, val) ==
    /\ KernelAlive
    /\ memory_sets[m].stage = "built"
    /\ LET pte == Translate(memory_sets[m].root_ppn, frame_ptes, vpn)
       IN  /\ pte # None
           /\ Unwrap(pte).valid
           /\ {"W", "U"} \subseteq Unwrap(pte).flags
           /\ frame_data' = [frame_data EXCEPT ![Unwrap(pte).ppn] = val]
    /\ last_call' = [call |-> "user_write", space |-> m, vpn |-> vpn]
    /\ UNCHANGED <<FRAME_ALLOCATOR, frame_trackers, QUEUE_FRAMES, dma_regions,
                   memory_sets, frame_ptes, tableVars>>
    /\ UNCHANGED <<schedVars, syncVars, lifeVars, procVars, sigVars>>

\* the page ranges [start, end) of the areas the kernel inserts, their
\* permissions, and the values user programs store
AreaRanges == {<<0, 1>>}
AreaPerms == {{"R", "W", "U"}}
UserValues == {1, 2}

NextSpace ==
    \/ SpaceNewBare(InitprocSpace)
    \/ \E m \in MemorySets : SpaceMapTrampoline(m)
    \/ \E m \in MemorySets : \E r \in AreaRanges : \E perm \in AreaPerms :
          SpaceInsertFramedArea(m, r, perm)
    \/ SpaceFramebuffer(InitprocSpace)
    \/ \E m \in MemorySets : \E r \in AreaRanges : SpaceRemoveArea(m, r[1])
    \/ \E m \in MemorySets : SpaceRecycleDataPages(m)
    \/ \E p, c \in MemorySets : SpaceFromExistedUser(p, c)
    \/ \E m \in MemorySets : \E vpn \in VPNs : \E val \in UserValues : UserWrite(m, vpn, val)

\* as InitLife, with frame_end frames for the address spaces
InitSpaceOf(frame_end) ==
    /\ current = Some(1)
    /\ ready_queue = <<2>>
    /\ task_status = [t \in Tasks |-> IF t = 1 THEN "Running" ELSE "Ready"]
    /\ kpc = [t \in Tasks |-> "user"]
    /\ InitSyncObjects
    /\ task_proc = [t \in Tasks |-> IF t = 1 THEN Some(INITPROC)
                                    ELSE IF t = 2 THEN Some(FirstChild) ELSE None]
    /\ task_res = [t \in Tasks |-> IF t <= 2 THEN Some(0) ELSE None]
    /\ task_exit_code = [t \in Tasks |-> None]
    /\ timers = {}
    /\ now_ms = 0
    /\ kernel_panic = FALSE
    /\ shutdown = FALSE
    /\ InitProcesses
    /\ tasks = [p \in Procs |-> IF p = INITPROC THEN <<Some(1)>>
                                ELSE IF p = FirstChild THEN <<Some(2)>> ELSE <<>>]
    /\ task_res_allocator =
          [p \in Procs |-> [current |-> IF p \in {INITPROC, FirstChild} THEN 1 ELSE 0,
                            recycled |-> <<>>]]
    /\ trap_cx = [t \in Tasks |-> InitTrapCx]
    /\ InitSignals
    /\ InitMemoryOf(frame_end)
    /\ last_call = NoCall

\* enough frames for the address spaces
InitSpace == InitSpaceOf(NSpaceFrames)

SpecSpace == InitSpace /\ [][NextSpace]_vars

\* ------------------------------------------------------- SpecExhaust
\* the same address spaces on a machine with few frames
InitExhaust == InitSpaceOf(NFewFrames)

SpecExhaust == InitExhaust /\ [][NextSpace]_vars

\* ================================================================= claims
\* the wait queue of each sync object
WaitQueue(obj) ==
    CASE obj = "mutex" -> mutex_wait_queue
      [] obj = "semaphore" -> sem_wait_queue
      [] obj = "condvar" -> condvar_wait_queue

\* C1: mutual exclusion of the blocking mutex: at most one thread is between
\* a returned lock() and its unlock(), under every interleaving of lock,
\* unlock, condvar wait, yields and timer preemption.
C1_MutualExclusion == Cardinality({t \in Tasks : holds[t]}) <= 1

\* C1 happens: one thread holds the mutex while a second one waits for it in
\* the wait queue and a third one sits preempted in the ready queue
C1_Witness ==
    \E t, u, v \in Tasks :
        /\ holds[t] /\ Contains(mutex_wait_queue, u) /\ Contains(ready_queue, v)
        /\ t # u /\ u # v /\ t # v

\* C3: FIFO wake-up: a step of unlock / up / signal that makes a waiter of a
\* sync object Ready wakes the thread that blocked on that object first.
C3_FifoWakeup ==
    [][\A obj \in SyncObjects : \A w \in Tasks :
          (/\ Contains(WaitQueue(obj), w)
           /\ task_status[w] = "Blocked"
           /\ task_status'[w] = "Ready")
          => w = Head(blocked_order[obj])]_vars

\* C3 happens: a thread that blocked on the mutex has been made Ready while a
\* thread that blocked after it still waits
C3_Witness ==
    \E a, b \in Tasks :
        /\ a # b
        /\ kpc[a] = "lock_blocked" /\ task_status[a] = "Ready"
        /\ Contains(mutex_wait_queue, b)

\* the number of places that hold task t: the ready queue, the wait queues,
\* the running slot, the timer heap, the set of exited threads
Exited(t) == IsSome(task_proc[t]) /\ task_res[t] = None
PlacesOf(t) ==
    Occurrences(ready_queue, t)
    + Occurrences(mutex_wait_queue, t)
    + Occurrences(sem_wait_queue, t)
    + Occurrences(condvar_wait_queue, t)
    + (IF current = Some(t) THEN 1 ELSE 0)
    + Cardinality({e \in timers : e.task = t})
    + (IF Exited(t) THEN 1 ELSE 0)

\* C2: every thread is in at most one of: the ready queue, one wait queue,
\* the running slot, the timer heap, the set of exited threads; also after
\* the exit of a process leader whose other threads sleep or are blocked.
C2_AtMostOnePlace == \A t \in Tasks : PlacesOf(t) <= 1
\* tid names a thread of the table other than the caller's own
NamesOtherThread(tbl, own, tid) ==
    /\ tid # own
    /\ tid < Len(tbl)
    /\ IsSome(tbl[tid + 1])

\* C7: sys_waittid(tid) returns -1 for every tid that names no other thread
\* of the calling process (the caller's own tid, a tid never created, any
\* tid at or beyond the length of the thread table, a tid already joined),
\* -2 when the named thread has not exited, and otherwise the thread's exit
\* code, removing the thread from the table.
C7_WaittidContract ==
    [][last_call'.call = "waittid" =>
          LET t == last_call'.task
              tid == last_call'.arg
              tbl == tasks[ProcOf(t)]
          IN  /\ ~last_call'.panics
              /\ IF ~NamesOtherThread(tbl, TidOf(t), tid)
                 THEN last_call'.ret = -1 /\ tasks' = tasks
                 ELSE IF task_exit_code[Unwrap(tbl[tid + 1])] = None
                 THEN last_call'.ret = -2 /\ tasks' = tasks
                 ELSE /\ last_call'.ret = Unwrap(task_exit_code[Unwrap(tbl[tid + 1])])
                      /\ tasks'[ProcOf(t)] = [tbl EXCEPT ![tid + 1] = None]]_vars

\* the syscalls whose result the model records
ReturningCalls == {"fork", "waitpid"}

\* C4: on return from a UserEnvCall trap the result of the syscall is in x10
\* (a0) of the calling thread's trap context and sepc was advanced by 4.
C4_ResultInA0 ==
    last_call.call \in ReturningCalls =>
        /\ trap_cx[last_call.task].x10 = last_call.ret
        /\ trap_cx[last_call.task].sepc = last_call.pc + 4

\* C5: after fork the parent's trap context has a0 = the pid of the child,
\* the child's has a0 = 0, and no other process has the child's pid.
C5_ForkReturn ==
    last_call.call = "fork" =>
        /\ trap_cx[last_call.task].x10 = last_call.ret
        /\ trap_cx[last_call.child].x10 = 0
        /\ proc_pid[ProcOf(last_call.child)] = Some(last_call.ret)
        /\ \A q \in Procs : q # ProcOf(last_call.child) => proc_pid[q] # Some(last_call.ret)

\* the children of process p that waitpid(pid) matches
MatchingChildren(p, pid) ==
    {c \in Range(children[p]) : pid = -1 \/ proc_pid[c] = Some(pid)}

\* C6: sys_waitpid(pid, ptr) has three outcomes: -1 and no state change when
\* no child matches pid; -2 and no state change when children match and none
\* of them is a zombie; otherwise exactly one matching zombie child leaves the
\* caller's children, its exit code is stored through ptr and its pid is the
\* result.  A reaped child is in no children list any more, and waitpid for a
\* specific pid returns no other pid.
C6_WaitpidOutcomes ==
    [][last_call'.call = "waitpid" =>
          LET p == ProcOf(last_call'.task)
              pid == last_call'.arg
              ret == last_call'.ret
              M == MatchingChildren(p, pid)
              Z == {c \in M : is_zombie[c]}
          IN  /\ M = {} =>
                    /\ ret = -1
                    /\ UNCHANGED <<proc_state, proc_pid, parent, children, is_zombie,
                                   exit_code, tasks, pid_allocator, pid2process, wstatus>>
              /\ (M # {} /\ Z = {}) =>
                    /\ ret = -2
                    /\ UNCHANGED <<proc_state, proc_pid, parent, children, is_zombie,
                                   exit_code, tasks, pid_allocator, pid2process, wstatus>>
              /\ Z # {} =>
                    \E c \in Z :
                        /\ ret = Unwrap(proc_pid[c])
                        /\ Len(children'[p]) = Len(children[p]) - 1
                        /\ Range(children'[p]) = Range(children[p]) \ {c}
                        /\ wstatus'[p] = Some(exit_code[c])
                        /\ \A q \in Procs : ~Contains(children'[q], c)
                        /\ pid # -1 => ret = pid]_vars

\* C6 happens: waitpid for a specific pid has reaped that child while another
\* zombie child of the caller stays in its children
C6_Witness ==
    /\ last_call.call = "waitpid"
    /\ last_call.arg # -1
    /\ last_call.ret = last_call.arg
    /\ \E c \in Range(children[ProcOf(last_call.task)]) : is_zombie[c]

\* C8: signal delivery never nests under a covering mask: when
\* check_pending_signals runs with handling_sig >= 0, it calls neither the
\* user handler nor the kernel handler for a signal that is in
\* signal_actions[handling_sig].mask.
C8_NoDeliveryUnderMask ==
    [][last_call'.call = "handle_signals" =>
          LET p == ProcOf(last_call'.task)
          IN  handling_sig[p] # -1 =>
                 \A sig \in last_call'.delivered :
                     sig \notin signal_actions[p][handling_sig[p]].mask]_vars

\* C8 happens: check_pending_signals has run while a handler was in flight
\* and left pending a signal that only the mask of that handler's action
\* holds back
C8_Witness ==
    /\ last_call.call = "handle_signals"
    /\ LET p == ProcOf(last_call.task)
       IN  /\ handling_sig[p] # -1
           /\ ~last_call.entered
           /\ \E sig \in signal_recv[p] :
                 /\ sig \notin signal_mask[p]
                 /\ sig \in signal_actions[p][handling_sig[p]].mask

\* C9: after sys_sigreturn (with nothing pending, so that the thread returns
\* to user mode with this context) the trap context equals the one saved in
\* trap_ctx_backup at handler entry and handling_sig is -1.
C9_SigreturnRestores ==
    (/\ last_call.call = "sigreturn"
     /\ ~last_call.panics
     /\ signal_recv[ProcOf(last_call.task)] = {})
    => /\ trap_cx[last_call.task] = Unwrap(trap_ctx_backup[ProcOf(last_call.task)])
       /\ handling_sig[ProcOf(last_call.task)] = -1

\* C10: signal delivery is sequential: while a user handler is in flight
\* (handling_sig set, sigreturn not yet called) no second user handler is
\* entered for the process and trap_ctx_backup is not overwritten.
C10_SequentialDelivery ==
    [][\A p \in Procs :
          (handling_sig[p] # -1 /\ last_call'.call # "sigreturn")
          => /\ handling_sig'[p] = handling_sig[p]
             /\ trap_ctx_backup'[p] = trap_ctx_backup[p]]_vars

\* ------------------------------------------------------------------ C11
\* the exit code check_signal_error_of_current maps a fault signal to
FaultErrno(sig) == Unwrap(CheckError({sig}))

\* the trap that follows a fault of thread t: handle_signals runs in the same
\* trap_handler call that posted the signal
FaultTrapTail == last_call.call = "fault" /\ last_call'.call = "handle_signals"

LiveTracked == {ppn \in PPNs : frame_trackers[ppn] > 0} \cup Range(QUEUE_FRAMES)

\* C12: every frame is returned to the allocator once and only by the drop of
\* its FrameTracker: no ppn on the recycle stack still has a live
\* FrameTracker, no ppn has two live FrameTrackers, and no ppn is on the
\* recycle stack twice.
C12_FrameReturnedByTracker ==
    /\ \A ppn \in Range(FRAME_ALLOCATOR.recycled) : ppn \notin LiveTracked
    /\ \A ppn \in PPNs : frame_trackers[ppn] + Occurrences(QUEUE_FRAMES, ppn) <= 1
    /\ \A ppn \in PPNs : Occurrences(FRAME_ALLOCATOR.recycled, ppn) <= 1

\* ------------------------------------------------------------------ C13
\* the MemorySet objects that exist
LiveSpaces == {m \in MemorySets : memory_sets[m].stage # "none"}

\* C13: for every MemorySet M and every VPN v, M.translate(v) is Some if and
\* only if some MapArea in M.areas covers v.
C13_TranslateIffCovered ==
    \A m \in LiveSpaces : \A v \in VPNs :
       IsSome(Translate(memory_sets[m].root_ppn, frame_ptes, v))
          <=> v \in Covered(memory_sets[m])

\* the range, type and permissions of the areas of a MemorySet
AreaShapes(ms) ==
    [i \in 1 .. Len(ms.areas) |->
        <<ms.areas[i].vpn_start, ms.areas[i].vpn_end, ms.areas[i].map_type,
          ms.areas[i].map_perm>>]

\* the pages of the areas of a type in kinds
PagesOfKind(ms, kinds) ==
    UNION {AreaPages(ms.areas[i]) :
              i \in {j \in 1 .. Len(ms.areas) : ms.areas[j].map_type.kind \in kinds}}

\* the frame the page table of ms maps vpn to
MappedPpn(ms, ptes, vpn) == Unwrap(Translate(ms.root_ppn, ptes, vpn)).ppn

\* the pages of ms with a valid entry, and the frames they are mapped to
MappedPages(ms, ptes) ==
    {v \in VPNs : /\ IsSome(Translate(ms.root_ppn, ptes, v))
                  /\ Unwrap(Translate(ms.root_ppn, ptes, v)).valid}
MappedFrames(ms, ptes) == {MappedPpn(ms, ptes, v) : v \in MappedPages(ms, ptes)}

\* what holds of child and parent after child = from_existed_user(parent),
\* over the pages of the parent's areas of a type in kinds
CloneOf(memory_set, user_space, ptes, data, kinds) ==
    /\ AreaShapes(memory_set) = AreaShapes(user_space)
    /\ \A v \in Covered(user_space) :
          /\ v \in MappedPages(memory_set, ptes) /\ v \in MappedPages(user_space, ptes)
          /\ data[MappedPpn(memory_set, ptes, v)] = data[MappedPpn(user_space, ptes, v)]
    /\ \A v \in PagesOfKind(user_space, kinds) : \A u \in PagesOfKind(memory_set, kinds) :
          MappedPpn(memory_set, ptes, u) # MappedPpn(user_space, ptes, v)
    /\ Range(memory_set.frames) \cap Range(user_space.frames) = {}

\* a step is a from_existed_user that returned
CloneStep == last_call'.call = "from_existed_user" /\ ~last_call'.panics

\* a step is a store to page vpn of MemorySet m
WriteStep(m, vpn) ==
    /\ last_call'.call = "user_write"
    /\ last_call'.space = m /\ last_call'.vpn = vpn

\* the contents of the pages of the areas of ms of a type in kinds
Contents(ms, ptes, data, kinds) ==
    [v \in PagesOfKind(ms, kinds) |-> data[MappedPpn(ms, ptes, v)]]

\* C14 as stated: after child = from_existed_user(parent) the child has the
\* parent's areas and contents, and no physical frame is mapped by both, so
\* a write to a page of one leaves every page of the other unchanged.
C14_NoFrameMappedByBoth ==
    [][ /\ CloneStep =>
             /\ CloneOf(memory_sets'[last_call'.space],
                        memory_sets'[last_call'.user_space], frame_ptes',
                        frame_data', {"Framed", "Linear"})
             /\ MappedFrames(memory_sets'[last_call'.space], frame_ptes')
                   \cap MappedFrames(memory_sets'[last_call'.user_space], frame_ptes')
                = {}
        /\ \A m \in MemorySets : \A v \in VPNs : WriteStep(m, v) =>
             \A o \in LiveSpaces \ {m} :
                Contents(memory_sets[o], frame_ptes, frame_data', {"Framed", "Linear"})
                = Contents(memory_sets[o], frame_ptes, frame_data, {"Framed", "Linear"})
      ]_vars

\* C14: after child = from_existed_user(parent) the child has the parent's
\* areas (range, type, permissions), every page of them holds in the child
\* what it holds in the parent, the frames of the Framed areas and of the
\* page tables of the two are disjoint, and a later store to a page of a
\* Framed area of one leaves every page of the Framed areas of the other
\* unchanged.  (The trampoline frame, and the frames of a Linear area, are
\* mapped by both.)
C14_CloneIsolatesFramed ==
    [][ /\ CloneStep =>
             CloneOf(memory_sets'[last_call'.space],
                     memory_sets'[last_call'.user_space], frame_ptes',
                     frame_data', {"Framed"})
        /\ \A m \in MemorySets : \A v \in VPNs :
             (WriteStep(m, v) /\ v \in PagesOfKind(memory_sets[m], {"Framed"})) =>
                \A o \in LiveSpaces \ {m} :
                   Contents(memory_sets[o], frame_ptes, frame_data', {"Framed"})
                   = Contents(memory_sets[o], frame_ptes, frame_data, {"Framed"})
      ]_vars

\* the child stored to a page the parent had written before the fork: the
\* child holds its own value, the parent the one it wrote
C14_Witness ==
    /\ last_call.call = "user_write" /\ last_call.space = ForkedSpace
    /\ last_call.vpn = 0
    /\ memory_sets[InitprocSpace].stage = "built"
    /\ 0 \in PagesOfKind(memory_sets[InitprocSpace], {"Framed"})
    /\ 0 \in PagesOfKind(memory_sets[ForkedSpace], {"Framed"})
    /\ frame_data[MappedPpn(memory_sets[InitprocSpace], frame_ptes, 0)] = 1
    /\ frame_data[MappedPpn(memory_sets[ForkedSpace], frame_ptes, 0)] = 2


\* C15: under fair scheduling, when every thread that holds the mutex
\* eventually calls unlock(), every thread blocked inside lock() eventually
\* returns from it holding the mutex (a lock() that does not block returns
\* in the same step).
C15_LockEventuallyReturns ==
    \A t \in Tasks : (kpc[t] = "lock_blocked") ~> (kpc[t] = "user" /\ holds[t])

\* a thread that blocked in lock() was woken and dispatched, the mutex was
\* handed to it, and another thread still waits
C15_Witness ==
    \E t \in Tasks :
       /\ kpc[t] = "lock_blocked" /\ current = Some(t)
       /\ mutex_locked /\ mutex_wait_queue # <<>>
       /\ \A u \in Tasks : ~holds[u]


\* the list of process p that holds the objects of a kind
HandleList(p, list) ==
    IF list = "mutex" THEN mutex_list[p]
    ELSE IF list = "semaphore" THEN semaphore_list[p]
    ELSE condvar_list[p]

\* the syscalls that take the handle of a sync object
HandleCalls == {"mutex_lock", "mutex_unlock", "semaphore_up", "semaphore_down",
                "condvar_signal", "condvar_wait"}

\* C16: a mutex, semaphore or condvar syscall given a handle that names no
\* object of the calling process returns -1, changes no kernel state and
\* does not panic the kernel.
C16_InvalidHandleReturnsError ==
    [][ (/\ last_call'.call \in HandleCalls
         /\ HandleLookup(HandleList(ProcOf(last_call'.task), last_call'.list),
                         last_call'.handle).panics)
        => /\ ~kernel_panic'
           /\ ~last_call'.panics /\ last_call'.ret = -1
           /\ UNCHANGED <<schedVars, syncVars, lifeVars, procVars, sigVars, memVars,
                          tableVars>>
      ]_vars


\* the kernel functions that allocate frames: PageTable::new inside new_bare
\* (fork, exec), find_pte_create inside map (page tables), map_one (areas,
\* user stacks, trap-context pages)
FrameCalls == {"new_bare", "map_trampoline", "insert_framed_area", "framebuffer",
               "from_existed_user"}

\* C17: when the frame allocator is exhausted during a syscall that needs
\* frames, the syscall returns -1 and the kernel keeps running: no call
\* that allocates frames ends in a kernel panic.
C17_ExhaustionIsNoPanic ==
    [][ last_call'.call \in FrameCalls => ~kernel_panic' ]_vars


\* C18: timer expirations are delivered in non-decreasing expire_ms order.
\* In every check_timer sweep the entries are passed to wakeup_task by
\* increasing expire_ms, no entry left in the heap has a smaller expire_ms
\* than one that was popped, and an entry added later does not lie in the
\* past: of two entries the one with the strictly smaller expire_ms is
\* woken first.
C18_TimersInExpireOrder ==
    [][ /\ last_call'.call = "check_timer" =>
             LET q == last_call'.popped
             IN  /\ Range(q) = timers \ timers'
                 /\ \A i, j \in 1 .. Len(q) : q[i].expire_ms < q[j].expire_ms => i < j
                 /\ \A e \in timers' : \A i \in 1 .. Len(q) :
                       ~(e.expire_ms < q[i].expire_ms)
                 /\ SubSeq(ready_queue', Len(ready_queue) + 1, Len(ready_queue) + Len(q))
                    = TasksOf(q)
        /\ \A e \in timers' \ timers : e.expire_ms >= now_ms
      ]_vars

\* one sweep woke two sleepers with different expire_ms
C18_Witness ==
    /\ last_call.call = "check_timer"
    /\ Len(last_call.popped) = 2
    /\ last_call.popped[1].expire_ms < last_call.popped[2].expire_ms
    /\ last_call.popped[1].task # last_call.popped[2].task


\* C19: whenever signal handling during a trap sets the killed flag of the
\* process (SIGKILL or SIGDEF was handed to call_kernel_signal_handler), the
\* trapping thread calls exit_current_and_run_next on that trap return and
\* does not resume user code.
C19_KilledExitsOnTrapReturn ==
    [][ \A t \in Tasks :
           (/\ last_call'.call = "handle_signals" /\ last_call'.task = t
            /\ last_call'.delivered \cap {SIG.KILL, SIG.DEF} # {}
            /\ killed'[ProcOf(t)])
           => kpc'[t] = "exited" /\ IsSome(task_exit_code'[t])
      ]_vars


\* the lowest free descriptor of a table: its first empty slot, or its
\* length when no slot is empty
LowestFree(table) ==
    CHOOSE k \in 0 .. Len(table) :
       /\ k = Len(table) \/ table[k + 1] = None
       /\ \A j \in 0 .. k - 1 : table[j + 1] # None

\* C20: alloc_fd returns the smallest index whose slot is empty and extends
\* the table by one only when no slot is empty: a dup or connect that
\* succeeds returns the lowest free descriptor and fills that slot alone, so
\* after close(k) the next dup returns k when k is the lowest free one.
C20_AllocFdLowestFree ==
    [][ \A t \in Tasks :
           (/\ last_call'.call \in {"dup", "connect"} /\ last_call'.task = t
            /\ last_call'.ret >= 0)
           => LET old == fd_table[ProcOf(t)]
                  new == fd_table'[ProcOf(t)]
                  k == last_call'.ret
              IN  /\ k = LowestFree(old)
                  /\ Len(new) = (IF k = Len(old) THEN Len(old) + 1 ELSE Len(old))
                  /\ new[k + 1] # None
                  /\ \A j \in 1 .. Len(old) : j # k + 1 => new[j] = old[j]
      ]_vars

\* the redirection of the shell: with a file at descriptor 3, close(0) and
\* then dup(3) returned 0
C20_Witness ==
    /\ last_call.call = "dup" /\ last_call.arg = 3 /\ last_call.ret = 0
    /\ fd_table[INITPROC][1] = Some("udp")
    /\ fd_table[INITPROC][2] = Some("stdout")

\* an exit step of the leader thread (tid 0) of a process other than initproc
LeaderExitStep(t) ==
    /\ last_call'.call = "exit" /\ last_call'.task = t
    /\ task_res[t] = Some(0)
    /\ proc_pid[ProcOf(t)] # Some(IDLE_PID)

\* C21: when the tid-0 thread of a process other than initproc exits with
\* code c, the process is a zombie with exit code c, its pid is out of the
\* pid-to-process map, its fd table and its mutex, semaphore and condvar
\* tables are empty, and its thread list holds exactly one entry.
C21_LeaderExitTearsDown ==
    [][ \A t \in Tasks :
           LeaderExitStep(t)
           => LET p == ProcOf(t)
              IN  /\ is_zombie'[p]
                  /\ exit_code'[p] = last_call'.arg
                  /\ \A e \in pid2process' : e[2] # p
                  /\ fd_table'[p] = <<>>
                  /\ mutex_list'[p] = <<>>
                  /\ semaphore_list'[p] = <<>>
                  /\ condvar_list'[p] = <<>>
                  /\ Len(tasks'[p]) = 1
      ]_vars

\* the part of C21 that leaves the tables of sync objects out
C21_LeaderExitOtherFields ==
    [][ \A t \in Tasks :
           LeaderExitStep(t)
           => LET p == ProcOf(t)
              IN  /\ is_zombie'[p]
                  /\ exit_code'[p] = last_call'.arg
                  /\ \A e \in pid2process' : e[2] # p
                  /\ fd_table'[p] = <<>>
                  /\ Len(tasks'[p]) = 1
      ]_vars

\* the processes whose children list contains c
ChildrenListsOf(c) == {q \in Procs : Contains(children[q], c)}

\* every process other than initproc is in the children list of its parent,
\* once, and in no other children list
InParentsListOnly ==
    \A c \in Procs \ {INITPROC} :
       proc_state[c] = "live"
       => /\ IsSome(parent[c])
          /\ ChildrenListsOf(c) = {Unwrap(parent[c])}
          /\ Occurrences(children[Unwrap(parent[c])], c) = 1

\* C22: after a process leader exits, every process of its children list is
\* in the children list of INITPROC with its parent pointing to INITPROC, and
\* the children list of the exited process is empty; in every reachable
\* state each live or zombie process other than initproc is in exactly one
\* children list, that of its parent.
C22_OrphansReparented ==
    /\ []InParentsListOnly
    /\ [][ \A t \in Tasks :
              LeaderExitStep(t)
              => LET p == ProcOf(t)
                 IN  /\ \A c \in Range(children[p]) :
                           /\ Contains(children'[INITPROC], c)
                           /\ parent'[c] = Some(INITPROC)
                     /\ children'[p] = <<>>
         ]_vars

\* an orphan: the first child has exited, and a process it forked is now a
\* child of initproc
C22_Witness ==
    /\ is_zombie[FirstChild]
    /\ \E c \in Procs \ {INITPROC, FirstChild} :
          /\ proc_state[c] = "live"
          /\ parent[c] = Some(INITPROC)
          /\ Contains(children[INITPROC], c)
          /\ children[FirstChild] = <<>>

\* the thread t calls MutexBlocking::unlock in this step (from
\* sys_mutex_unlock or from Condvar::wait_with_mutex)
UnlockStep(t) == holds[t] /\ ~holds'[t]

\* the threads woken by unlock that have not run since: out of the wait
\* queue, yet still inside lock()
HandedOver == {h \in Tasks : kpc[h] = "lock_blocked" /\ ~Contains(mutex_wait_queue, h)}

\* C23: ownership hand-off in MutexBlocking::unlock: with a non-empty wait
\* queue unlock wakes exactly the head waiter and leaves locked true; locked
\* becomes false only when the wait queue is empty; between the unlock and
\* the resumption of the woken thread the mutex stays locked and no other
\* thread acquires it.
C23_UnlockHandsOver ==
    /\ [](HandedOver # {} => mutex_locked /\ \A u \in Tasks : ~holds[u])
    /\ [][ \A t \in Tasks :
              UnlockStep(t)
              => IF mutex_wait_queue # <<>>
                 THEN LET h == Head(mutex_wait_queue)
                      IN  /\ mutex_locked'
                          /\ mutex_wait_queue' = Tail(mutex_wait_queue)
                          /\ task_status[h] = "Blocked" /\ task_status'[h] = "Ready"
                          /\ ready_queue' = Append(ready_queue, h)
                          /\ \A u \in Tasks \ {h, t} : task_status'[u] = task_status[u]
                 ELSE /\ ~mutex_locked'
                      /\ mutex_wait_queue' = <<>>
                      /\ ready_queue' = ready_queue
         ]_vars
    /\ [][ (mutex_locked /\ ~mutex_locked') => mutex_wait_queue = <<>> ]_vars

\* a thread was handed the mutex and has not run yet, and every other
\* thread, the one that unlocked included, has called lock() and waits
C23_Witness ==
    /\ Cardinality(HandedOver) = 1
    /\ Len(mutex_wait_queue) = NThreads - 1
    /\ mutex_locked

\* C24: semaphore bound: for a semaphore created with count N >= 0, the
\* number of down() calls that have returned minus the number of completed
\* up() calls is at most N in every reachable state; and whenever the
\* counter is negative, the wait queue is as long as its absolute value.
C24_SemaphoreBound ==
    /\ sem_free >= 0
    /\ sem_count < 0 => Len(sem_wait_queue) = -sem_count

\* an up() has woken a waiter that has not returned from down() yet, and the
\* next thread that called down() in between waits
C24_Witness ==
    /\ \E t \in Tasks : kpc[t] = "down_blocked" /\ ~Contains(sem_wait_queue, t)
    /\ sem_count < 0
    /\ sem_free = 1

\* the thread t has released the mutex inside wait_with_mutex and no
\* signal() has dequeued it yet
AwaitsSignal(t) ==
    \/ kpc[t] \in {"wait_unlocked", "wait_enqueued"}
    \/ kpc[t] = "wait_blocked" /\ task_status[t] = "Blocked"

\* C25: wait_with_mutex(m) releases m, enqueues the caller and blocks with
\* no other thread running in between, so a signal() by another thread
\* always finds the caller in the wait queue; the caller returns only after
\* a signal() dequeued it and after it has re-acquired m.
C25_NoLostWakeup ==
    \* between the unlock and the block the caller is the running thread ...
    /\ [](\A t \in Tasks : kpc[t] \in {"wait_unlocked", "wait_enqueued"} => current = Some(t))
    \* ... and nothing of another thread's program moves
    /\ [][ \A t \in Tasks :
              kpc[t] \in {"wait_unlocked", "wait_enqueued"}
              => \A u \in Tasks \ {t} : kpc'[u] = kpc[u] /\ holds'[u] = holds[u]
         ]_vars
    \* whenever another thread runs, a caller not dequeued yet is in the queue
    /\ [](\A t \in Tasks :
             (AwaitsSignal(t) /\ current # Some(t)) => Contains(condvar_wait_queue, t))
    \* only a signal() that dequeues the caller wakes it
    /\ [][ \A t \in Tasks :
              (AwaitsSignal(t) /\ kpc[t] = "wait_blocked" /\ task_status'[t] # "Blocked")
              => /\ condvar_wait_queue # <<>> /\ Head(condvar_wait_queue) = t
                 /\ condvar_wait_queue' = Tail(condvar_wait_queue)
         ]_vars
    \* the caller leaves wait_with_mutex dequeued and holding the mutex
    /\ [][ \A t \in Tasks :
              (kpc[t] \in {"wait_blocked", "lock_blocked"} /\ kpc'[t] # kpc[t])
              => /\ ~Contains(condvar_wait_queue, t)
                 /\ kpc'[t] \in {"user", "lock_blocked"}
                 /\ kpc'[t] = "user" => holds'[t] /\ mutex_locked'
         ]_vars

\* a signal() has dequeued and woken a waiter while the signalling thread
\* holds the mutex: the waiter will have to re-acquire it
C25_Witness ==
    \E t, u \in Tasks :
       /\ t # u
       /\ kpc[t] = "wait_blocked" /\ task_status[t] = "Ready"
       /\ ~Contains(condvar_wait_queue, t)
       /\ holds[u] /\ mutex_locked

\* the head of a wait queue, when this step popped it (unlock, up, signal)
PoppedHead(wq_before, wq_after) ==
    IF wq_before # <<>> /\ wq_after = Tail(wq_before) THEN {Head(wq_before)} ELSE {}

\* C26: every wake-up is a Blocked-to-Ready transition: whenever
\* wakeup_task(t) is called, from MutexBlocking::unlock, Condvar::signal,
\* Semaphore::up or check_timer (also from a timer interrupt taken inside a
\* syscall), t is Blocked, is not the running task and is not in the ready
\* queue.
C26_WakeupOnlyOfBlocked ==
    [][ LET by_timer == IF last_call'.call = "check_timer"
                        THEN Range(TasksOf(last_call'.popped)) ELSE {}
            woken == by_timer
                     \cup PoppedHead(mutex_wait_queue, mutex_wait_queue')
                     \cup PoppedHead(sem_wait_queue, sem_wait_queue')
                     \cup PoppedHead(condvar_wait_queue, condvar_wait_queue')
        IN  \A w \in woken :
               /\ task_status[w] = "Blocked"
               /\ current # Some(w)
               /\ ~Contains(ready_queue, w)
      ]_vars

\* the kernel signals check_pending_signals handled in this step of thread t
KernelHandled(t) ==
    IF last_call'.call = "handle_signals" /\ last_call'.task = t
    THEN last_call'.delivered \cap KernelSignals ELSE {}

\* what the handling of SIGSTOP, SIGCONT, SIGKILL and SIGDEF does to frozen
\* and killed (SIGCONT is handled before SIGSTOP in one pass)
KernelHandledFlags(t) ==
    LET p == ProcOf(t)
        h == KernelHandled(t)
    IN  /\ SIG.STOP \in h => frozen'[p]
        /\ (SIG.CONT \in h /\ SIG.STOP \notin h) => ~frozen'[p]
        /\ SIG.KILL \in h => killed'[p]
        /\ SIG.DEF \in h => killed'[p]

SignalPass(t) == last_call'.call = "handle_signals" /\ last_call'.task = t

\* what C28 says of a pass, the exit on trap return left aside: the masked
\* pending signals stay pending and are not handled, and when nothing else
\* is pending no handler is entered and frozen and killed keep their values
MaskedLeftAlone(t) ==
    LET p == ProcOf(t)
        masked == signal_recv[p] \cap signal_mask[p]
    IN  /\ masked \subseteq signal_recv'[p]
        /\ last_call'.delivered \cap masked = {}
        /\ signal_recv[p] \subseteq signal_mask[p]
           => /\ ~last_call'.entered
              /\ frozen'[p] = frozen[p]
              /\ killed'[p] = killed[p]

\* C28: a pending signal contained in the process-wide signal_mask has no
\* effect while it stays masked: no user-handler entry, no change of frozen
\* or killed, no exit of the process on trap return; it only stays pending.
C28_MaskedHasNoEffect ==
    [][ \A t \in Tasks :
           SignalPass(t)
           => /\ MaskedLeftAlone(t)
              /\ signal_recv[ProcOf(t)] \subseteq signal_mask[ProcOf(t)]
                 => kpc'[t] # "exited"
      ]_vars

\* the part of C28 about check_pending_signals alone
C28_MaskedNotHandled == [][ \A t \in Tasks : SignalPass(t) => MaskedLeftAlone(t) ]_vars

\* the process of t is frozen and not killed
Stopped(t) == IsSome(task_proc[t]) /\ frozen[ProcOf(t)] /\ ~killed[ProcOf(t)]

\* no thread of a frozen and not killed process is running in user mode
NoStoppedInUser == \A t \in Tasks : current = Some(t) /\ kpc[t] = "user" => ~Stopped(t)

\* a pass of handle_signals that finds the process frozen and not killed
\* yields: the thread stays in the loop, Ready and queued, the processor free
StoppedPassYields ==
    \A t \in Tasks :
       (SignalPass(t) /\ kpc'[t] # "exited"
          /\ frozen'[ProcOf(t)] /\ ~killed'[ProcOf(t)])
       => /\ kpc'[t] = "signals"
          /\ task_status'[t] = "Ready"
          /\ Len(ready_queue') > 0 /\ ready_queue'[Len(ready_queue')] = t
          /\ current' = None

\* the loop is left towards user mode only with frozen cleared or killed set
LoopLeftOnlyWhenNotStopped ==
    \A t \in Tasks :
       (SignalPass(t) /\ kpc'[t] = "user")
       => ~frozen'[ProcOf(t)] \/ killed'[ProcOf(t)]

\* C29: a process that is frozen and not killed never returns to user mode:
\* handle_signals keeps yielding (the thread stays in the ready queue) and
\* leaves the loop only after SIGCONT cleared frozen or killed was set.
C29_FrozenNeverInUser ==
    /\ []NoStoppedInUser
    /\ [][StoppedPassYields /\ LoopLeftOnlyWhenNotStopped]_vars

\* the part of C29 about the loop of handle_signals alone
C29_LoopYieldsWhileFrozen == [][StoppedPassYields /\ LoopLeftOnlyWhenNotStopped]_vars

\* a step that ran check_timer (under SpecTimer every sweep is recorded)
Sweep == last_call'.call = "check_timer"

\* check_timer at now_ms pops and wakes exactly the entries with
\* expire_ms <= now_ms and leaves the others in the heap
SweepExact ==
    LET q == last_call'.popped
    IN  /\ Range(q) = Expired(timers, now_ms)
        /\ timers' = Unexpired(timers, now_ms)
        /\ \A e \in Expired(timers, now_ms) :
              /\ task_status'[e.task] = "Ready"
              /\ \E i \in 1 .. Len(ready_queue') : ready_queue'[i] = e.task
        /\ \A e \in Unexpired(timers, now_ms) :
              task_status'[e.task] = task_status[e.task]

\* sys_sleep(ms) at now_ms leaves the caller Blocked with an entry at
\* now_ms + ms, and a sleeper is made Ready only by a sweep at or after the
\* expiry of its entry
SleeperWokenOnTime ==
    /\ \A e \in timers' \ timers :
          /\ \E ms \in SleepArgs : e.expire_ms = now_ms + ms
          /\ task_status'[e.task] = "Blocked"
    /\ \A t \in Tasks :
          (kpc[t] = "sleep_blocked" /\ task_status[t] = "Blocked"
             /\ task_status'[t] = "Ready")
          => /\ Sweep
             /\ \E e \in timers : e.task = t /\ e.expire_ms <= now_ms

\* C30: check_timer at current time t wakes exactly the timer entries with
\* expire_ms <= t and removes them from the heap, leaving every entry with
\* expire_ms > t in the heap; so a thread that called sleep(ms) at t0 is never
\* made Ready by the timer before the time reaches t0 + ms, and is made Ready
\* by the first sweep at or after that time.
C30_SweepWakesExactlyExpired ==
    [][ (Sweep => SweepExact) /\ SleeperWokenOnTime ]_vars

\* C30 for heaps whose entries all have expire_ms below 2^(UsizeBits-1)
C30_SweepExactBelowIsizeMax ==
    [][ /\ (Sweep /\ \A e \in timers : AsIsize(e.expire_ms) >= 0) => SweepExact
        /\ SleeperWokenOnTime ]_vars

\* a step that ran trap_from_kernel
KernelTrap == last_call'.call = "trap_from_kernel"

\* what trap_from_kernel does by cause
KernelTrapEffect ==
    LET c == last_call'.cause
        q == last_call'.popped
    IN  /\ current' = current
        /\ current' = Some(last_call'.task)
        /\ kpc' = kpc
        /\ c = "SupervisorTimer" =>
              /\ ~kernel_panic'
              /\ timers' = timers \ Range(q)
              /\ \A e \in Range(q) : e.expire_ms <= now_ms
              /\ ready_queue' = ready_queue \o TasksOf(q)
        /\ c = "SupervisorExternal" =>
              /\ UNCHANGED <<ready_queue, task_status, timers>>
              /\ kernel_panic' <=> last_call'.src \notin RoutedIrqs
        /\ c \notin {"SupervisorTimer", "SupervisorExternal"} =>
              /\ kernel_panic'
              /\ UNCHANGED <<ready_queue, task_status, timers>>

\* the running task is put back on the ready queue, Ready, only out of user mode
PreemptedOnlyInUser ==
    \A t \in Tasks :
       (current = Some(t) /\ current' # Some(t) /\ task_status'[t] = "Ready")
       => /\ kpc[t] = "user"
          /\ ~KernelTrap
          /\ ready_queue'[Len(ready_queue')] = t

\* C31: an interrupt taken while the kernel is executing never switches
\* tasks: in trap_from_kernel a supervisor timer interrupt only sweeps the
\* timer heap (the running task stays the running task), an external
\* interrupt only runs the device handler, any other cause panics;
\* preemption happens only on a timer interrupt taken from user mode.
C31_KernelTrapNeverSwitches ==
    [][ (KernelTrap => KernelTrapEffect) /\ PreemptedOnlyInUser ]_vars

\* a timer interrupt inside sys_sleep woke a sleeper and the caller still runs
C31_Witness ==
    /\ last_call.call = "trap_from_kernel"
    /\ last_call.cause = "SupervisorTimer"
    /\ Len(last_call.popped) > 0
    /\ last_call.popped[1].task # last_call.task
    /\ current = Some(last_call.task)
    /\ kpc[last_call.task] = "sleep_added"

\* a byte of the user stack; a page that was not written reads as zero
ReadByte(mem, a) == IF a \in DOMAIN mem THEN mem[a] ELSE 0

\* the usize at address a, little endian; -1 stands for a value of 2^32 or
\* more (a nonzero byte among the upper four)
ReadUsize(mem, a) ==
    IF \E k \in 4 .. USIZE_BYTES - 1 : ReadByte(mem, a + k) # 0 THEN -1
    ELSE ReadByte(mem, a) + ReadByte(mem, a + 1) * 256
         + ReadByte(mem, a + 2) * (256 ^ 2) + ReadByte(mem, a + 3) * (256 ^ 3)

\* the NUL-terminated string at address a, as _start reads it
RECURSIVE ReadCStr(_, _)
ReadCStr(mem, a) ==
    IF ReadByte(mem, a) = 0 THEN <<>> ELSE <<ReadByte(mem, a)>> \o ReadCStr(mem, a + 1)

\* the step was an exec call
ExecStep == last_call'.call = "exec"

\* what the new program finds: a0 = n, a1 = argv_base, argv[n] = 0, sp aligned
\* and not above a string, each argv[i] at a string inside the stack
ExecFrame ==
    LET t == last_call'.task
        n == Len(last_call'.args)
        cx == trap_cx'[t]
        mem == user_image'[ProcOf(t)].mem
    IN  /\ user_image'[ProcOf(t)].elf = last_call'.path
        /\ cx.x10 = n
        /\ cx.sepc = ElfEntry
        /\ cx.x11 % USIZE_BYTES = 0
        /\ cx.x11 + (n + 1) * USIZE_BYTES <= UstackTop
        /\ ReadUsize(mem, cx.x11 + n * USIZE_BYTES) = 0
        /\ cx.sp % USIZE_BYTES = 0
        /\ \A i \in 0 .. n - 1 :
              /\ ReadUsize(mem, cx.x11 + i * USIZE_BYTES) # 0
              /\ cx.sp <= ReadUsize(mem, cx.x11 + i * USIZE_BYTES)
              /\ ReadUsize(mem, cx.x11 + i * USIZE_BYTES) < cx.x11

\* argv[i] is the string args[i] the caller passed
ExecStringsCopied ==
    LET t == last_call'.task
        cx == trap_cx'[t]
        mem == user_image'[ProcOf(t)].mem
    IN  \A i \in 0 .. Len(last_call'.args) - 1 :
           ReadCStr(mem, ReadUsize(mem, cx.x11 + i * USIZE_BYTES)) = last_call'.args[i + 1]

\* exec of a path that cannot be opened: -1, the image and the trap context
\* saved at the trap are kept
ExecFailureKeeps ==
    LET t == last_call'.task
    IN  /\ last_call'.ret = -1
        /\ user_image' = user_image
        /\ trap_cx'[t] = StoreResult(TrapEnter(0, 0, last_call'.pc), -1)
        /\ UNCHANGED memVars

\* the trap tail that returns to user mode with no signal delivered keeps the
\* trap context
TailKeepsTrapCx ==
    \A t \in Tasks :
       (SignalPass(t) /\ kpc'[t] = "user" /\ ~last_call'.entered)
       => trap_cx'[t] = trap_cx[t] /\ user_image' = user_image

\* C32: after a successful exec(path, args) with n arguments the process
\* first runs the new program in user mode with a0 = n, a1 = argv_base,
\* argv[i] pointing to a NUL-terminated copy of args[i] on the new user
\* stack, argv[n] = 0 and sp aligned to 8 bytes and not above any pushed
\* string; exec of a path that cannot be opened returns -1 and leaves the
\* memory set and the trap context unchanged.
C32_ExecPassesArguments ==
    [][ /\ (ExecStep /\ last_call'.path \in ElfFiles)
           => last_call'.ret = 0 /\ ExecFrame /\ ExecStringsCopied
        /\ (ExecStep /\ last_call'.path \notin ElfFiles) => ExecFailureKeeps
        /\ TailKeepsTrapCx ]_vars

\* C32 without the copy of the strings, and the copy for ASCII arguments
C32_ExecFrameAndAscii ==
    [][ /\ (ExecStep /\ last_call'.path \in ElfFiles)
           => /\ last_call'.ret = 0
              /\ ExecFrame
              /\ (\A i \in 1 .. Len(last_call'.args) :
                    \A j \in 1 .. Len(last_call'.args[i]) : last_call'.args[i][j] < 128)
                 => ExecStringsCopied
        /\ (ExecStep /\ last_call'.path \notin ElfFiles) => ExecFailureKeeps
        /\ TailKeepsTrapCx ]_vars

\* ppn is allocated: issued by the allocator and not in the recycle stack
CurrentlyAllocated(a, ppn) ==
    /\ PoolStart <= ppn
    /\ ppn < a.current
    /\ ~Contains(a.recycled, ppn)

\* C33: StackFrameAllocator::dealloc(ppn) is fatal for every ppn that is not
\* currently allocated (below the pool's start, at or above the watermark,
\* or already in the recycle stack); only a currently allocated ppn is
\* pushed onto the recycle stack.
C33_DeallocFatalUnlessAllocated ==
    [][ last_call'.call = "frame_dealloc" =>
          LET ppn == last_call'.ppn
          IN  IF CurrentlyAllocated(FRAME_ALLOCATOR, ppn)
              THEN /\ ~kernel_panic'
                   /\ FRAME_ALLOCATOR' =
                         [FRAME_ALLOCATOR EXCEPT !.recycled = Append(@, ppn)]
              ELSE /\ kernel_panic'
                   /\ FRAME_ALLOCATOR' = FRAME_ALLOCATOR
      ]_vars

\* C33 for page numbers at or above the pool's start
C33_DeallocFatalAbovePoolStart ==
    [][ (last_call'.call = "frame_dealloc" /\ last_call'.ppn >= PoolStart) =>
          LET ppn == last_call'.ppn
          IN  IF CurrentlyAllocated(FRAME_ALLOCATOR, ppn)
              THEN /\ ~kernel_panic'
                   /\ FRAME_ALLOCATOR' =
                         [FRAME_ALLOCATOR EXCEPT !.recycled = Append(@, ppn)]
              ELSE /\ kernel_panic'
                   /\ FRAME_ALLOCATOR' = FRAME_ALLOCATOR
      ]_vars

\* C34: assert!(locked) of MutexBlocking::unlock holds at every unlock a
\* user thread can issue, whether or not the caller holds the mutex and
\* whether or not the mutex was ever locked.
C34_UnlockAssertionHolds ==
    [][ last_call'.call = "mutex_unlock" => (mutex_locked /\ ~kernel_panic') ]_vars

\* a thread that returned from lock and has not unlocked finds the mutex locked
\* (callers that unlock only what they hold)
C34_HolderFindsLocked ==
    \A t \in Tasks : holds[t] => mutex_locked

\* a step of sys_sigreturn
SigreturnStep == last_call'.call = "sigreturn"

\* C35: sys_sigreturn never unwraps an empty backup: whenever a user thread
\* issues sigreturn, trap_ctx_backup is Some and the kernel does not panic,
\* and a sigreturn issued with no handler in flight leaves the thread with
\* the trap context of the trap it came in with.
C35_SigreturnNeverUnwrapsEmpty ==
    [][ SigreturnStep =>
          LET t == last_call'.task
              p == ProcOf(t)
          IN  /\ trap_ctx_backup[p] # None
              /\ ~kernel_panic'
              /\ handling_sig[p] = -1 =>
                   trap_cx'[t] = StoreResult(TrapEnter(0, 0, last_call'.pc), 0)
      ]_vars

\* a sigreturn issued while a handler is in flight finds a backup, does not
\* panic, and restores that backup
C35_SigreturnInFlight ==
    [][ (SigreturnStep /\ handling_sig[ProcOf(last_call'.task)] # -1) =>
          LET t == last_call'.task
              p == ProcOf(t)
          IN  /\ trap_ctx_backup[p] # None
              /\ ~kernel_panic'
              /\ trap_cx'[t] = StoreResult(Unwrap(trap_ctx_backup[p]), 0)
      ]_vars

\* a sigreturn with no handler in flight that finds the backup of a finished
\* handler leaves the thread with the trap context of the trap it came in with
C35_NoHandlerKeepsContext ==
    [][ (/\ SigreturnStep
         /\ handling_sig[ProcOf(last_call'.task)] = -1
         /\ trap_ctx_backup[ProcOf(last_call'.task)] # None) =>
          trap_cx'[last_call'.task] = StoreResult(TrapEnter(0, 0, last_call'.pc), 0)
      ]_vars

\* the frames the areas of a MemorySet own (their data_frames)
OwnedFrames(ms) == Range(AreaFrames(ms.areas))

\* the frames the allocator has not handed out or has taken back
FreeFrames ==
    (FRAME_ALLOCATOR.current .. FRAME_ALLOCATOR.end - 1) \cup Range(FRAME_ALLOCATOR.recycled)

\* the pages of ms with a valid leaf entry that maps a frame of the
\* allocator (neither the trampoline page nor device memory)
FramedMappings(ms) ==
    {v \in MappedPages(ms, frame_ptes) : MappedPpn(ms, frame_ptes, v) < FRAME_ALLOCATOR.end}

\* every valid leaf entry of ms that maps a frame of the allocator refers
\* to a frame one of the areas of ms owns, and to no free frame
NoDangling(ms) ==
    \A v \in FramedMappings(ms) :
       /\ MappedPpn(ms, frame_ptes, v) \in OwnedFrames(ms)
       /\ MappedPpn(ms, frame_ptes, v) \notin FreeFrames

\* C36 as stated: no dangling user mapping in any reachable state, also
\* after recycle_data_pages and after remove_area_with_start_vpn.
C36_NoDanglingEver ==
    \A m \in LiveSpaces : NoDangling(memory_sets[m])

\* C36: every valid leaf PTE of a MemorySet that maps an allocator frame
\* refers to a frame owned by one of its areas, in every state up to
\* recycle_data_pages, also after remove_area_with_start_vpn; after
\* recycle_data_pages the MemorySet has no area and owns no data frame, and
\* the frames of its page table are still allocated.
C36_NoDanglingUntilRecycled ==
    \A m \in LiveSpaces :
       IF memory_sets[m].stage = "recycled"
       THEN /\ memory_sets[m].areas = <<>>
            /\ Range(memory_sets[m].frames) \cap FreeFrames = {}
       ELSE NoDangling(memory_sets[m])

\* remove_area_with_start_vpn took an area with a frame out of a MemorySet:
\* the frame is back in the allocator and page 0 is no longer mapped
C36_Witness ==
    /\ last_call.call = "remove_area"
    /\ memory_sets[last_call.space].areas = <<>>
    /\ FRAME_ALLOCATOR.recycled # <<>>
    /\ 0 \notin MappedPages(memory_sets[last_call.space], frame_ptes)

\* recycle_data_pages left a valid entry that refers to a free frame
C36_DanglingAfterRecycle ==
    \E m \in LiveSpaces :
       /\ memory_sets[m].stage = "recycled"
       /\ \E v \in FramedMappings(memory_sets[m]) :
             MappedPpn(memory_sets[m], frame_ptes, v) \in FreeFrames

\* slot i of the thread table of p holds a thread that has exited and has
\* not been joined
ExitedUnjoined(p, i) ==
    /\ i \in 2 .. Len(tasks[p])
    /\ IsSome(tasks[p][i])
    /\ IsSome(task_exit_code[Unwrap(tasks[p][i])])

\* the step joins the thread in slot i of p, or tears the process down
JoinsOrTearsDown(p, i) ==
    \/ last_call'.call = "waittid" /\ ProcOf(last_call'.task) = p
                                   /\ last_call'.arg = i - 1
    \/ last_call'.call = "exit" /\ ProcOf(last_call'.task) = p
                                /\ TidOf(last_call'.task) = 0

\* C37: the exit code of a non-leader thread that has exited and has not
\* been joined stays retrievable: its entry stays in its slot of the thread
\* table until waittid takes it, whatever thread_create calls come in
\* between, and the waittid that takes it returns its exit code.
C37_ExitCodeStaysRetrievable ==
    [][ \A p \in Procs : \A i \in 2 .. NThreads :
          ExitedUnjoined(p, i) =>
             IF JoinsOrTearsDown(p, i)
             THEN last_call'.call = "waittid" =>
                     last_call'.ret = Unwrap(task_exit_code[Unwrap(tasks[p][i])])
             ELSE /\ tasks'[p][i] = tasks[p][i]
                  /\ task_exit_code'[Unwrap(tasks[p][i])]
                        = task_exit_code[Unwrap(tasks[p][i])]
      ]_vars

\* C37 for every step but thread_create
C37_RetrievableUntilCreate ==
    [][ \A p \in Procs : \A i \in 2 .. NThreads :
          (ExitedUnjoined(p, i) /\ last_call'.call # "thread_create") =>
             IF JoinsOrTearsDown(p, i)
             THEN last_call'.call = "waittid" =>
                     last_call'.ret = Unwrap(task_exit_code[Unwrap(tasks[p][i])])
             ELSE /\ tasks'[p][i] = tasks[p][i]
                  /\ task_exit_code'[Unwrap(tasks[p][i])]
                        = task_exit_code[Unwrap(tasks[p][i])]
      ]_vars

\* the slots of the thread table of p that hold a thread: created and not
\* yet joined
Unjoined(p) == {i \in 1 .. Len(tasks[p]) : IsSome(tasks[p][i])}

\* C38: thread_count() equals the number of threads of the process that
\* have not been joined, so that after every thread other than tid 0 has
\* exited and been joined thread_count() is 1 again and the assertion of
\* exec holds.
C38_ThreadCountIsUnjoined ==
    /\ \A p \in Procs : ThreadCount(p) = Cardinality(Unjoined(p))
    /\ (last_call.call = "exec" /\ Cardinality(Unjoined(ProcOf(last_call.task))) = 1)
          => ~kernel_panic

\* thread_count() is the length of the thread table: the number of threads
\* not yet joined, plus the joined slots below the last slot ever used
C38_ThreadCountIsTableLength ==
    \A p \in Procs :
       /\ ThreadCount(p) >= Cardinality(Unjoined(p))
       /\ (proc_state[p] = "live" /\ ~is_zombie[p]) => 1 \in Unjoined(p)

\* every other thread was joined and exec still panicked
C38_ExecPanicsAfterJoin ==
    /\ last_call.call = "exec"
    /\ kernel_panic
    /\ Unjoined(ProcOf(last_call.task)) = {1}

\* the trap context sys_thread_create writes for a new thread
CreatedTrapCxs ==
    {[InitTrapCx EXCEPT !.sepc = e, !.x10 = a] : e \in ThreadEntries, a \in ThreadArgs}

\* C39: a thread created by thread_create is never dispatched before its
\* trap context has been initialised: whenever a thread other than a main
\* thread is the running thread, sys_thread_create has finished writing its
\* trap context, under every interleaving with timer and external interrupts
\* between add_task and the writes.
C39_NoDispatchBeforeInit ==
    /\ \A n \in Tasks : current = Some(n) => kpc[n] # "created"
    /\ \A n \in Tasks :
          (IsSome(task_res[n]) /\ TidOf(n) # 0 /\ kpc[n] # "created") =>
             trap_cx[n].sepc # InitTrapCx.sepc
    /\ last_call.call = "thread_create" =>
          \E n \in Tasks : /\ IsSome(task_res[n]) /\ TidOf(n) = last_call.ret
                           /\ trap_cx[n] \in CreatedTrapCxs

\* an interrupt was taken between add_task and the writes: the new thread is
\* in the ready queue with its trap context still zeroed, and the creator is
\* still the running thread
C39_Witness ==
    /\ last_call.call = "trap_from_kernel"
    /\ ~kernel_panic
    /\ kpc[last_call.task] = "thread_added"
    /\ current = Some(last_call.task)
    /\ \E n \in Range(ready_queue) : kpc[n] = "created" /\ trap_cx[n] = InitTrapCx

\* the readers the condvar of the device holds
InputWaiters == Range(input_dev.wait_queue)

\* the readers that were woken and have not yet looked at the queue again
InputWoken ==
    {t \in Tasks : /\ kpc[t] \in {"input_waiting", "input_switched"}
                   /\ t \notin InputWaiters}

\* each event is returned by exactly one read_event call, in arrival order
EventsOnceInOrder ==
    /\ [i \in 1 .. Len(input_dev.taken) |-> input_dev.taken[i].event]
          \o input_dev.events
       = [i \in 1 .. input_dev.arrived |-> i]
    /\ last_call.call = "read_event" /\ IsSome(last_call.ret) =>
          input_dev.taken[Len(input_dev.taken)] =
             [task |-> last_call.task, event |-> Unwrap(last_call.ret)]

\* an interrupt that brings events wakes the reader at the head of the wait
\* queue, also when that reader has not yet called schedule()
IrqWakesHeadReader ==
    (/\ last_call.call = "handle_irq"
     /\ last_call.count > 0
     /\ last_call.waiting # <<>>)
    => LET t == Head(last_call.waiting)
       IN  /\ last_call.woken = Some(t)
           /\ task_status[t] = "Ready"
           /\ t \in Range(ready_queue)
           /\ t \notin InputWaiters

\* every reader in the wait queue is Blocked and every woken reader is in
\* the ready queue or running
ReadersAccounted ==
    /\ \A t \in InputWaiters : task_status[t] = "Blocked" /\ t \notin Range(ready_queue)
    /\ \A t \in InputWoken : t \in Range(ready_queue) \/ current = Some(t)

\* no reader is left blocked with an event nobody was woken for
NoReaderLeftBehind ==
    InputWaiters # {} => Len(input_dev.events) <= Cardinality(InputWoken)

\* C40: no lost wake-up in the input device: an interrupt that arrives
\* between a reader's empty-queue check and its schedule() still wakes that
\* reader, each queued event is returned by exactly one read_event call in
\* arrival order, and no reader stays blocked on the device condvar while the
\* event queue holds an event no woken reader is about to take, also when one
\* interrupt enqueues several events while several readers are blocked.
C40_NoLostWakeup ==
    /\ IrqWakesHeadReader
    /\ EventsOnceInOrder
    /\ ReadersAccounted
    /\ NoReaderLeftBehind

\* C40 without the readers a several-event interrupt leaves behind
C40_WakeupAndOrder ==
    /\ IrqWakesHeadReader
    /\ EventsOnceInOrder
    /\ ReadersAccounted

\* an interrupt woke a reader that had enqueued itself and not yet called
\* schedule()
C40_WokenInWindow ==
    /\ last_call.call = "handle_irq"
    /\ IsSome(last_call.woken)
    /\ current = last_call.woken
    /\ kpc[Unwrap(last_call.woken)] = "input_waiting"

\* a reader is blocked on the condvar, nobody is woken, and events are queued
C40_ReaderStuck ==
    /\ InputWaiters # {}
    /\ InputWoken = {}
    /\ input_dev.events # <<>>
    /\ input_dev.arrived = MaxEvents

====
